---- MODULE Spec2Model ----
(***************************************************************************)
(* A model of the realtime-conversation client runtime:                    *)
(*   - the Page Buffer of the Audio Player (middlewares/audio_player.py),  *)
(*   - the Conversation Group (conversation.py) as driven by the           *)
(*     Conversation State Engine (middlewares/track_conversation.py) and   *)
(*     the outbound middleware chain (shared.py, give_client_event_id.py). *)
(* Each component has its own specification over the shared variables; the *)
(* variables of the other components keep their initial values.            *)
(***************************************************************************)
EXTENDS Integers, Sequences, FiniteSets, TLC

VARIABLES
    \* ---- Page Buffer (audio_player.py, class Buffer) and its test driver
    buf,            \* the Buffer object: [dq |-> deque of pages, tail |-> optional bytes]
    appended,       \* every byte passed to Buffer.append so far, in order
    popped,         \* what Buffer.pop returned so far: <<[page, n_content_bytes], ...>>
    all_appended,   \* the producer has appended its last byte (run_once: i >= total_len)
    respecting,     \* every pop so far respected availability (run_once's discipline)
    \* ---- Conversation State Engine and the pipeline around it
    track_conversation, \* the TrackConversation object, its ConversationGroup included
    c,              \* GiveClientEventId.c: the next serial of itertools.count()
    n_uuid,         \* how many uuid4() values were drawn for item ids
    n_server_events,\* events keep_receiving took from the connection
    n_client_events,\* calls of send
    receiving,      \* the keep_receiving task is alive (no handler raised in it)
    sent,           \* the events passed to connection.send, in order
    last,           \* the event handled last and how its handling ended
    server_events,  \* TrackConversation.server_events, in insertion order
                    \* (recorded in the specification of the response stream)
    \* ---- hook_handlers with chains of any handlers (shared.py)
    server_event_handlers,  \* the list given to hook_handlers, None before the call
    client_event_handlers,  \* the list given to hook_handlers, None before the call
    chain_run,      \* the last pass of an event down a chain
    \* ---- the interruptable audio player (interrupt.py, audio_player.py)
    interrupt,          \* Interrupt: is_user_talking, already_interrupted
    audio_player,       \* AudioPlayer: format_info, speeches
    playback_tracker,   \* the state of the RealtimePlaybackTracker
    track_config,       \* TrackConfig: session_config and the two audio formats
    audio_total_bytes,  \* cell.audio_total_bytes, by item id
    asyncio_loop,       \* _interrupt tasks created and tracker updates
                        \* scheduled, not yet finished
    iap_run,            \* the last server event handled by the four handlers
    \* ---- the transport and the task that receives from it (shared.py,
    \*      interface.py)
    websocket,          \* frames delivered and not read yet, and how the
                        \* connection was closed, if it was
    listener,           \* the receiving loop: which one, alive or not, what
                        \* it handed to the handlers, how it ended
    \* ---- the audio configuration (audio_config.py)
    config_info,        \* the last ConfigSpecification built and what its
                        \* resolve returned or raised
    \* ---- the Audio Player between its two threads (audio_player.py)
    lock,               \* AudioPlayer.lock: "free", or "device" while
                        \* on_audio_out is inside its with block
    device_thread,      \* where the device thread is in on_audio_out, the
                        \* speech it read, what the callback raised
    speech_end,         \* the on-speech-end handlers registered and fired,
                        \* the speeches drained and the speeches cleared
    \* ---- the Microphone Streamer (stream_mic.py)
    stream_mic          \* the queue of captured frames and the worker

buffer_vars == <<buf, appended, popped, all_appended, respecting>>

chain_vars == <<server_event_handlers, client_event_handlers, chain_run>>

interrupt_vars == <<interrupt, audio_player, playback_tracker, track_config,
                    audio_total_bytes, asyncio_loop, iap_run>>

conversation_vars == <<track_conversation, c, n_uuid, n_server_events,
                       n_client_events, receiving, sent, last, server_events,
                       chain_vars, interrupt_vars>>

transport_vars == <<websocket, listener>>

\* the variables of the components that have a specification of their own
\* and that the other specifications leave alone
player_vars == <<lock, device_thread, speech_end>>

mic_vars == <<stream_mic>>

device_vars == <<config_info, player_vars, mic_vars>>

runtime_vars == <<transport_vars, device_vars>>

vars == <<buf, appended, popped, all_appended, respecting,
          track_conversation, c, n_uuid, n_server_events,
          n_client_events, receiving, sent, last, server_events,
          server_event_handlers, client_event_handlers, chain_run,
          interrupt, audio_player, playback_tracker, track_config,
          audio_total_bytes, asyncio_loop, iap_run,
          websocket, listener, config_info,
          lock, device_thread, speech_end, stream_mic>>

(***************************************************************************)
(* Python's Optional: None is the empty sequence, a value x is <<x>>.      *)
(***************************************************************************)
None == <<>>
Some(x) == <<x>>
Get(o) == o[1]

Min(a, b) == IF a <= b THEN a ELSE b

\* Python slices s[:n] and s[n:] (n >= 0), which clamp at the end of s.
Take(s, n) == SubSeq(s, 1, Min(n, Len(s)))
Drop(s, n) == SubSeq(s, n + 1, Len(s))

IsPrefix(s, t) == Len(s) <= Len(t) /\ SubSeq(t, 1, Len(s)) = s

(***************************************************************************)
(* Bounds of the model.                                                    *)
(***************************************************************************)
NSamplesPerPage == 2    \* FormatInfo.n_samples_per_page of the modelled player
MaxAppended == 9        \* bytes the producer appends in one run
MaxPops == 4            \* calls of Buffer.pop in one run

(***************************************************************************)
(* FormatInfo for PCM, the only format whose pages are ever popped: the    *)
(* Audio Player opens its output stream (and so installs the callback that *)
(* pops) only for AudioPCM, and silence_sample raises for the others.      *)
(***************************************************************************)
N_CHANNELS == 1
n_bytes_per_sample == 2
silence_sample == <<0, 0>>
n_bytes_per_page == N_CHANNELS * n_bytes_per_sample * NSamplesPerPage

RECURSIVE Repeat(_, _)
Repeat(s, n) == IF n = 0 THEN <<>> ELSE s \o Repeat(s, n - 1)

silence_page == Repeat(silence_sample, NSamplesPerPage)

(***************************************************************************)
(* class Buffer.  A buffer value is [dq, tail]; the operators return the   *)
(* buffer after the call (and, for pop, what the call returned).           *)
(***************************************************************************)
Buffer_init == [dq |-> <<>>, tail |-> None]

\* pop with the tail returned as it is, without the silence padding
Buffer_pop_unpadded(b) ==
    IF b.dq # <<>>
    THEN [buf |-> [b EXCEPT !.dq = Tail(@)],
          page |-> Head(b.dq), n_content_bytes |-> n_bytes_per_page]
    ELSE IF b.tail = None
    THEN [buf |-> b, page |-> silence_page, n_content_bytes |-> 0]
    ELSE [buf |-> [b EXCEPT !.tail = None],
          page |-> Get(b.tail), n_content_bytes |-> Len(Get(b.tail))]

\* pop that forgets to reset the tail after returning it
Buffer_pop_keeps_tail(b) ==
    IF b.dq # <<>>
    THEN [buf |-> [b EXCEPT !.dq = Tail(@)],
          page |-> Head(b.dq), n_content_bytes |-> n_bytes_per_page]
    ELSE IF b.tail = None
    THEN [buf |-> b, page |-> silence_page, n_content_bytes |-> 0]
    ELSE [buf |-> b,
          page |-> Get(b.tail) \o Drop(silence_page, Len(Get(b.tail))),
          n_content_bytes |-> Len(Get(b.tail))]

Buffer_pop(b) ==
    IF b.dq # <<>>
    THEN [buf |-> [b EXCEPT !.dq = Tail(@)],
          page |-> Head(b.dq), n_content_bytes |-> n_bytes_per_page]
    ELSE IF b.tail = None
    THEN [buf |-> b, page |-> silence_page, n_content_bytes |-> 0]
    ELSE [buf |-> [b EXCEPT !.tail = None],
          page |-> Get(b.tail) \o Drop(silence_page, Len(Get(b.tail))),
          n_content_bytes |-> Len(Get(b.tail))]

\* the `while len(mv):` loop of append
RECURSIVE Buffer_append_pages(_, _)
Buffer_append_pages(b, mv) ==
    IF Len(mv) = 0 THEN b
    ELSE LET segment == Take(mv, n_bytes_per_page)
             rest    == Drop(mv, n_bytes_per_page)
         IN  IF Len(segment) = n_bytes_per_page
             THEN Buffer_append_pages([b EXCEPT !.dq = Append(@, segment)], rest)
             ELSE [b EXCEPT !.tail = Some(segment)]

\* append that does not drop from the data the bytes that completed the tail
Buffer_append_reuses_bytes(b, data) ==
    IF b.tail # None
    THEN LET tail_short_by == n_bytes_per_page - Len(Get(b.tail))
             tail2 == Get(b.tail) \o Take(data, tail_short_by)
         IN  IF Len(tail2) < n_bytes_per_page
             THEN [b EXCEPT !.tail = Some(tail2)]
             ELSE Buffer_append_pages(
                      [dq |-> Append(b.dq, tail2), tail |-> None], data)
    ELSE Buffer_append_pages(b, data)

\* append that moves the tail to the deque without checking that it is full
Buffer_append_short_page(b, data) ==
    IF b.tail # None
    THEN LET tail_short_by == n_bytes_per_page - Len(Get(b.tail))
             tail2 == Get(b.tail) \o Take(data, tail_short_by)
         IN  Buffer_append_pages(
                 [dq |-> Append(b.dq, tail2), tail |-> None],
                 Drop(data, tail_short_by))
    ELSE Buffer_append_pages(b, data)

Buffer_append(b, data) ==
    IF b.tail # None
    THEN LET tail_short_by == n_bytes_per_page - Len(Get(b.tail))
             tail2 == Get(b.tail) \o Take(data, tail_short_by)
         IN  IF Len(tail2) < n_bytes_per_page
             THEN [b EXCEPT !.tail = Some(tail2)]
             ELSE Buffer_append_pages(
                      [dq |-> Append(b.dq, tail2), tail |-> None],
                      Drop(data, tail_short_by))
    ELSE Buffer_append_pages(b, data)

Buffer_is_empty(b) == Len(b.dq) = 0 /\ b.tail = None

(***************************************************************************)
(* The driver of the buffer: the producer of run_once, which streams a     *)
(* payload in chunks of any size, and a consumer that pops at any time.    *)
(* Buffer never looks at the value of a byte, so the k-th byte of the      *)
(* payload carries the label k (non-zero: a padding byte is never taken    *)
(* for payload).                                                           *)
(***************************************************************************)
DataByte(k) == ((k - 1) % 255) + 1

Chunk(from, k) == [i \in 1..k |-> DataByte(from + i)]

CeilDiv(a, b) == (a + b - 1) \div b

\* run_once.pages_available
pages_available == (Len(appended) \div n_bytes_per_page) - Len(popped)

\* run_once pops only when a full page is ready or, after the last append,
\* until ceil(total_len / n_bytes_per_page) pages were popped
PopRespectsAvailability ==
    \/ ~all_appended /\ pages_available > 0
    \/ all_appended /\ Len(popped) < CeilDiv(Len(appended), n_bytes_per_page)

BufferInit ==
    /\ buf = Buffer_init
    /\ appended = <<>>
    /\ popped = <<>>
    /\ all_appended = FALSE
    /\ respecting = TRUE

DoAppend ==
    /\ ~all_appended
    /\ \E k \in 0..(MaxAppended - Len(appended)) :
          LET chunk == Chunk(Len(appended), k)
          IN  /\ buf' = Buffer_append(buf, chunk)
              /\ appended' = appended \o chunk
    /\ UNCHANGED <<popped, all_appended, respecting>>
    /\ UNCHANGED conversation_vars
    /\ UNCHANGED runtime_vars

DoLastAppend ==
    /\ ~all_appended
    /\ all_appended' = TRUE
    /\ UNCHANGED <<buf, appended, popped, respecting>>
    /\ UNCHANGED conversation_vars
    /\ UNCHANGED runtime_vars

DoPop ==
    /\ Len(popped) < MaxPops
    /\ LET r == Buffer_pop(buf)
       IN  /\ buf' = r.buf
           /\ popped' = Append(popped,
                 [page |-> r.page, n_content_bytes |-> r.n_content_bytes])
    /\ respecting' = (respecting /\ PopRespectsAvailability)
    /\ UNCHANGED <<appended, all_appended>>
    /\ UNCHANGED conversation_vars
    /\ UNCHANGED runtime_vars

BufferNext == DoAppend \/ DoLastAppend \/ DoPop

(***************************************************************************)
(* class ConversationGroup (conversation.py).  A group value is a record   *)
(* of the object's fields.  A method that can raise returns                *)
(* [raised, cg]: whether it raised, and the group as the call left it (an  *)
(* exception undoes nothing that was done before it was raised).           *)
(***************************************************************************)
root == "root"

\* Cell.truncate_info of a new cell (conversation_group.py)
Cell_truncate_info == None

Cell(item_id, response_id) ==
    [item_id |-> item_id, response_id |-> response_id,
     audio_truncate |-> None,
     truncate_info |-> Cell_truncate_info,
     touched_by_event_ids |-> <<>>]

ConversationGroup_init ==
    [main_conversation |-> <<>>,
     main_conversation_item_ids |-> {},
     main_conversation_id |-> None,
     trashed_cells |-> <<>>,
     out_of_band_cells |-> <<>>]

Raised(cg) == [raised |-> TRUE, cg |-> cg]
Returned(cg) == [raised |-> FALSE, cg |-> cg]

\* list.insert(index, x) and list.pop(index), index counted from 0
InsertAt(s, index, x) == Take(s, index) \o <<x>> \o Drop(s, index)
PopAt(s, index) == Take(s, index) \o Drop(s, index + 1)

is_root(previous_item_id) ==
    previous_item_id = None \/ previous_item_id = Some(root)

assert_main_conversation_id(cg, conversation_id) ==
    IF cg.main_conversation_id = None
    THEN Returned([cg EXCEPT !.main_conversation_id = Some(conversation_id)])
    ELSE IF cg.main_conversation_id = Some(conversation_id)
    THEN Returned(cg)
    ELSE Raised(cg)

\* seek: `cell_i, = [...]` raises unless exactly one cell has the id
seek(cg, item_id) ==
    LET found == {i \in 0..(Len(cg.main_conversation) - 1) :
                     cg.main_conversation[i + 1].item_id = item_id}
    IN  IF Cardinality(found) = 1
        THEN [raised |-> FALSE, cell_i |-> CHOOSE i \in found : TRUE]
        ELSE [raised |-> TRUE, cell_i |-> 0]

main_conversation_contains(cg, item_id) ==
    item_id \in cg.main_conversation_item_ids

index_after(cg, previous_item_id) ==
    IF is_root(previous_item_id)
    THEN [raised |-> FALSE, index |-> 0]
    ELSE LET s == seek(cg, Get(previous_item_id))
         IN  [raised |-> s.raised, index |-> s.cell_i + 1]

insert_after(cg, cell, previous_item_id) ==
    IF cell.item_id = root THEN Raised(cg)
    ELSE IF \E k \in DOMAIN cg.out_of_band_cells :
                cg.out_of_band_cells[k].item_id = cell.item_id
    THEN Raised(cg)
    ELSE LET at == index_after(cg, previous_item_id)
         IN  IF at.raised THEN Raised(cg)
             ELSE LET cg1 == [cg EXCEPT !.main_conversation =
                                            InsertAt(@, at.index, cell)]
                  IN  IF cell.item_id \in cg1.main_conversation_item_ids
                      THEN Raised(cg1)
                      ELSE Returned([cg1 EXCEPT !.main_conversation_item_ids =
                                                    @ \cup {cell.item_id}])

\* move that leaves the cell where it is
move_leaves_in_place(cg, item_id, previous_item_id) ==
    IF seek(cg, item_id).raised \/ index_after(cg, previous_item_id).raised
    THEN Raised(cg)
    ELSE Returned(cg)

move(cg, item_id, previous_item_id) ==
    LET s == seek(cg, item_id)
    IN  IF s.raised THEN Raised(cg)
        ELSE LET cell == cg.main_conversation[s.cell_i + 1]
                 cg1 == [cg EXCEPT !.main_conversation = PopAt(@, s.cell_i)]
                 at == index_after(cg1, previous_item_id)
             IN  IF at.raised THEN Raised(cg1)
                 ELSE Returned([cg1 EXCEPT !.main_conversation =
                                               InsertAt(@, at.index, cell)])

\* trash that appends the cell to the trash and leaves it in the main list
trash_keeps_in_main(cg, item_id) ==
    LET s == seek(cg, item_id)
    IN  IF s.raised THEN Raised(cg)
        ELSE Returned([cg EXCEPT
                 !.trashed_cells =
                     Append(@, cg.main_conversation[s.cell_i + 1])])

trash(cg, item_id) ==
    LET s == seek(cg, item_id)
    IN  IF s.raised THEN Raised(cg)
        ELSE LET cg1 == [cg EXCEPT
                           !.trashed_cells =
                               Append(@, cg.main_conversation[s.cell_i + 1]),
                           !.main_conversation = PopAt(@, s.cell_i)]
             IN  IF item_id \in cg1.main_conversation_item_ids
                 THEN Returned([cg1 EXCEPT !.main_conversation_item_ids =
                                               @ \ {item_id}])
                 ELSE Raised(cg1)

\* get_cell_from_id followed by the append to the cell's touch list
touch(cg, item_id, event_id) ==
    IF main_conversation_contains(cg, item_id)
    THEN LET s == seek(cg, item_id)
         IN  IF s.raised THEN Raised(cg)
             ELSE Returned([cg EXCEPT
                     !.main_conversation[s.cell_i + 1].touched_by_event_ids =
                         Append(@, event_id)])
    ELSE IF item_id \in DOMAIN cg.out_of_band_cells
    THEN Returned([cg EXCEPT
             !.out_of_band_cells[item_id].touched_by_event_ids =
                 Append(@, event_id)])
    ELSE Raised(cg)

\* last_item_id that reads the other end of the list
get_cell_from_id(cg, item_id) ==
    IF main_conversation_contains(cg, item_id)
    THEN LET s == seek(cg, item_id)
         IN  [raised |-> s.raised,
              cell |-> IF s.raised THEN Cell(item_id, None)
                       ELSE cg.main_conversation[s.cell_i + 1]]
    ELSE IF item_id \in DOMAIN cg.out_of_band_cells
    THEN [raised |-> FALSE, cell |-> cg.out_of_band_cells[item_id]]
    ELSE [raised |-> TRUE, cell |-> Cell(item_id, None)]

last_item_id_first(cg) ==
    IF Len(cg.main_conversation) = 0
    THEN root
    ELSE cg.main_conversation[1].item_id

last_item_id(cg) ==
    IF Len(cg.main_conversation) = 0
    THEN root
    ELSE cg.main_conversation[Len(cg.main_conversation)].item_id

\* safe_add_oob that stores the cell without its response_id
safe_add_oob_without_response(cg, cell) ==
    IF main_conversation_contains(cg, cell.item_id) THEN Raised(cg)
    ELSE IF cell.item_id \in DOMAIN cg.out_of_band_cells THEN Raised(cg)
    ELSE Returned([cg EXCEPT !.out_of_band_cells =
                      (cell.item_id :> [cell EXCEPT !.response_id = None])
                          @@ @])

safe_add_oob(cg, cell) ==
    IF main_conversation_contains(cg, cell.item_id) THEN Raised(cg)
    ELSE IF cell.item_id \in DOMAIN cg.out_of_band_cells THEN Raised(cg)
    ELSE Returned([cg EXCEPT !.out_of_band_cells =
                                 (cell.item_id :> cell) @@ @])


(***************************************************************************)
(* class TrackConversation and its Impatience (track_conversation.py).     *)
(* An engine value is a record of the object's fields; a handler returns   *)
(* [raised, tc]: whether it raised, and the engine as it left it.          *)
(* An item is [id, payload, status]: payload stands for every field of the *)
(* item that the engine compares but never rewrites.                       *)
(***************************************************************************)
TrackConversation_init ==
    [conversation_group |-> ConversationGroup_init,
     all_items |-> <<>>,
     responses |-> <<>>,
     locally_synced_awaiting_server_confirmation |-> {},
     response_added_awaiting_conversation_insertion |-> <<>>]

Fail(tc) == [raised |-> TRUE, tc |-> tc]
Done(tc) == [raised |-> FALSE, tc |-> tc]

\* the engine after a call r on its conversation group
WithGroup(tc, r) ==
    [raised |-> r.raised, tc |-> [tc EXCEPT !.conversation_group = r.cg]]

\* conversation_group.insert_after(...) then conversation_group.touch(...)
InsertAfterThenTouch(tc, cell, previous_item_id, event_id) ==
    LET r == insert_after(tc.conversation_group, cell, previous_item_id)
    IN  IF r.raised THEN WithGroup(tc, r)
        ELSE WithGroup(tc, touch(r.cg, cell.item_id, event_id))

\* item_from_param: the item object built from a client param, field by
\* field; a field the param leaves out reads None
item_from_param(item_param) == item_param

\* Impatience.handle, case conversation.item.create
Impatience_handle_create(tc, event_param) ==
    LET item_param == event_param.item
        item_id == Get(item_param.id)
    IN  IF item_param.id = None THEN Fail(tc)
        ELSE IF item_id \in tc.locally_synced_awaiting_server_confirmation
        THEN Fail(tc)
        ELSE
        LET tc1 == [tc EXCEPT
                       !.locally_synced_awaiting_server_confirmation =
                           @ \cup {item_id}]
        IN  IF item_id \in DOMAIN tc1.all_items THEN Fail(tc1)
            ELSE InsertAfterThenTouch(
                     [tc1 EXCEPT !.all_items =
                          (item_id :> item_from_param(item_param)) @@ @],
                     Cell(item_id, None),
                     event_param.previous_item_id,
                     event_param.event_id)

\* Impatience.handle, case ResponseOutputItemAddedEvent
Impatience_handle_output_item_added(tc, event) ==
    LET item_id == Get(event.item.id)
    IN  IF event.item.id = None THEN Fail(tc)
        ELSE IF item_id \in DOMAIN tc.all_items THEN Fail(tc)
        ELSE IF event.response_id \notin DOMAIN tc.responses THEN Fail(tc)
        ELSE IF tc.responses[event.response_id].conversation_id = None
        THEN LET tc1 == [tc EXCEPT !.all_items = (item_id :> event.item) @@ @]
                 r == safe_add_oob(tc1.conversation_group,
                                   Cell(item_id, Some(event.response_id)))
             IN  IF r.raised THEN WithGroup(tc1, r)
                 ELSE WithGroup(tc1, touch(r.cg, item_id, Some(event.event_id)))
        ELSE IF item_id \in
                    DOMAIN tc.response_added_awaiting_conversation_insertion
        THEN Fail(tc)
        ELSE Done([tc EXCEPT
                 !.response_added_awaiting_conversation_insertion =
                     (item_id :> event.response_id) @@ @,
                 !.all_items = (item_id :> event.item) @@ @])

\* a function without the key k (dict.pop)
Without(f, k) == [x \in (DOMAIN f) \ {k} |-> f[x]]

\* the locally synced branch of case ConversationItemAdded
Impatience_confirm_locally_synced(tc, event) ==
    LET item_id == Get(event.item.id)
    IN  IF item_id \notin DOMAIN tc.all_items THEN Fail(tc)
        ELSE
        LET tc1 == [tc EXCEPT !.all_items[item_id].status = event.item.status]
        IN  IF tc1.all_items[item_id] # event.item THEN Fail(tc1)
            ELSE LET r == move(tc1.conversation_group, item_id,
                               event.previous_item_id)
                 IN  IF r.raised THEN WithGroup(tc1, r)
                     ELSE WithGroup(tc1,
                              touch(r.cg, item_id, Some(event.event_id)))

\* the added-by-response branch with a cell that names no response
Impatience_insert_without_response_id(tc, event, response_id) ==
    LET item_id == Get(event.item.id)
    IN  IF item_id \notin DOMAIN tc.all_items THEN Fail(tc)
        ELSE IF tc.all_items[item_id] # event.item THEN Fail(tc)
        ELSE InsertAfterThenTouch(tc, Cell(item_id, None),
                                  event.previous_item_id,
                                  Some(event.event_id))

\* the added-by-response branch of case ConversationItemAdded
Impatience_insert_added_by_response(tc, event, response_id) ==
    LET item_id == Get(event.item.id)
    IN  IF item_id \notin DOMAIN tc.all_items THEN Fail(tc)
        ELSE IF tc.all_items[item_id] # event.item THEN Fail(tc)
        ELSE InsertAfterThenTouch(tc, Cell(item_id, Some(response_id)),
                                  event.previous_item_id,
                                  Some(event.event_id))

\* the last branch of case ConversationItemAdded: an item first heard of
Impatience_insert_fresh(tc, event) ==
    LET item_id == Get(event.item.id)
    IN  IF item_id \in DOMAIN tc.all_items THEN Fail(tc)
        ELSE InsertAfterThenTouch(
                 [tc EXCEPT !.all_items = (item_id :> event.item) @@ @],
                 Cell(item_id, None),
                 event.previous_item_id,
                 Some(event.event_id))

\* which pending set claims the item of a ConversationItemAdded
is_locally_synced(tc, event) ==
    Get(event.item.id) \in tc.locally_synced_awaiting_server_confirmation

is_added_by_response(tc, event) ==
    Get(event.item.id) \in
        DOMAIN tc.response_added_awaiting_conversation_insertion

\* Impatience.handle, case ConversationItemAdded
Impatience_handle_item_added(tc, event) ==
    IF event.item.id = None THEN Fail(tc)
    ELSE
    LET item_id == Get(event.item.id)
        tc1 == [tc EXCEPT
                   !.locally_synced_awaiting_server_confirmation =
                       @ \ {item_id},
                   !.response_added_awaiting_conversation_insertion =
                       Without(@, item_id)]
    IN  IF is_locally_synced(tc, event) /\ is_added_by_response(tc, event)
        THEN Fail(tc1)
        ELSE IF is_locally_synced(tc, event)
        THEN Impatience_confirm_locally_synced(tc1, event)
        ELSE IF is_added_by_response(tc, event)
        THEN Impatience_insert_added_by_response(tc1, event,
                 tc.response_added_awaiting_conversation_insertion[item_id])
        ELSE Impatience_insert_fresh(tc1, event)

\* the group with the cell that get_cell_from_id returns replaced by cell
with_cell(cg, item_id, cell) ==
    IF main_conversation_contains(cg, item_id)
    THEN [cg EXCEPT !.main_conversation[seek(cg, item_id).cell_i + 1] = cell]
    ELSE [cg EXCEPT !.out_of_band_cells[item_id] = cell]

\* server_event_handler, case ConversationItemTruncatedEvent
TrackConversation_item_truncated(tc, event) ==
    LET g == get_cell_from_id(tc.conversation_group, event.item_id)
    IN  IF g.raised THEN Fail(tc)
        ELSE LET cell == IF g.cell.truncate_info = None
                         THEN [g.cell EXCEPT !.truncate_info =
                                  Some(<<event.content_index,
                                         event.audio_end_ms, None>>)]
                         ELSE g.cell
             IN  WithGroup(tc, touch(with_cell(tc.conversation_group,
                                               event.item_id, cell),
                                     event.item_id, Some(event.event_id)))

\* server_event_handler, case ConversationItemDeletedEvent
TrackConversation_item_deleted(tc, event) ==
    LET r == touch(tc.conversation_group, event.item_id, Some(event.event_id))
    IN  IF r.raised THEN WithGroup(tc, r)
        ELSE WithGroup(tc, trash(r.cg, event.item_id))

\* server_event_handler, case ResponseCreatedEvent
TrackConversation_response_created(tc, event) ==
    LET response == event.response
        r == IF response.conversation_id # None
             THEN assert_main_conversation_id(tc.conversation_group,
                                              Get(response.conversation_id))
             ELSE Returned(tc.conversation_group)
        tc1 == [tc EXCEPT !.conversation_group = r.cg]
    IN  IF r.raised THEN Fail(tc1)
        ELSE IF response.id \in DOMAIN tc1.responses THEN Fail(tc1)
        ELSE Done([tc1 EXCEPT !.responses = (response.id :> response) @@ @])

\* isinstance(item, tp_rt.RealtimeConversationItemAssistantMessage), for the
\* items that carry a role and a list of content parts
is_assistant_message(item) == item.role = "assistant"

\* server_event_handler, case ResponseContentPartAddedEvent
TrackConversation_content_part_added(tc, event) ==
    IF event.item_id \notin DOMAIN tc.all_items THEN Fail(tc)
    ELSE IF ~is_assistant_message(tc.all_items[event.item_id]) THEN Fail(tc)
    ELSE IF Len(tc.all_items[event.item_id].content) # event.content_index
    THEN Fail(tc)
    ELSE LET tc1 == [tc EXCEPT !.all_items[event.item_id].content =
                        Append(@, [text |-> event.part.text,
                                   transcript |-> event.part.transcript])]
             g == get_cell_from_id(tc1.conversation_group, event.item_id)
         IN  IF g.raised THEN Fail(tc1)
             ELSE IF g.cell.response_id # Some(event.response_id)
             THEN Fail(tc1)
             ELSE Done(tc1)

\* a delta put in front of the transcript
transcript_with_delta_in_front(transcript, delta) ==
    IF transcript = None THEN Some(delta) ELSE Some(delta \o Get(transcript))

\* a transcript that is None is set, any other is extended
transcript_with_delta(transcript, delta) ==
    IF transcript = None THEN Some(delta) ELSE Some(Get(transcript) \o delta)

\* server_event_handler, case ResponseAudioTranscriptDeltaEvent
TrackConversation_audio_transcript_delta(tc, event) ==
    IF event.item_id \notin DOMAIN tc.all_items THEN Fail(tc)
    ELSE IF ~is_assistant_message(tc.all_items[event.item_id]) THEN Fail(tc)
    ELSE IF event.content_index >= Len(tc.all_items[event.item_id].content)
    THEN Fail(tc)
    ELSE LET tc1 == [tc EXCEPT
                        !.all_items[event.item_id]
                            .content[event.content_index + 1].transcript =
                                transcript_with_delta(@, event.delta)]
         IN  WithGroup(tc1, touch(tc1.conversation_group, event.item_id,
                                  Some(event.event_id)))

\* server_event_handler, case ResponseAudioDeltaEvent: the cell is looked
\* up (its audio_total_bytes is kept aside, by item id) and touched
TrackConversation_audio_delta(tc, event) ==
    IF get_cell_from_id(tc.conversation_group, event.item_id).raised
    THEN Fail(tc)
    ELSE WithGroup(tc, touch(tc.conversation_group, event.item_id,
                             Some(event.event_id)))

TrackConversation_server_event_handler(tc, event) ==
    CASE event.type = "conversation.item.added" ->
             Impatience_handle_item_added(tc, event)
      [] event.type = "conversation.item.truncated" ->
             TrackConversation_item_truncated(tc, event)
      [] event.type = "conversation.item.deleted" ->
             TrackConversation_item_deleted(tc, event)
      [] event.type = "response.created" ->
             TrackConversation_response_created(tc, event)
      [] event.type = "response.output_item.added" ->
             Impatience_handle_output_item_added(tc, event)
      [] event.type = "response.content_part.added" ->
             TrackConversation_content_part_added(tc, event)
      [] event.type = "response.output_audio_transcript.delta" ->
             TrackConversation_audio_transcript_delta(tc, event)
      [] event.type = "response.output_audio.delta" ->
             TrackConversation_audio_delta(tc, event)
      [] OTHER -> Done(tc)

\* f'client-set-{uuid.uuid4()}'[:31]: the n-th value drawn differs from
\* every item id seen before
ClientSetId(n) == "client-set-" \o ToString(n)

\* client_event_handler: [raised, tc, event, drew_uuid]; the event is the
\* one returned to the chain
TrackConversation_client_event_handler(tc, event_param, uuid_serial) ==
    IF event_param.type = "conversation.item.create"
    THEN LET drew == event_param.item.id = None
             item_id == IF drew THEN ClientSetId(uuid_serial)
                        ELSE Get(event_param.item.id)
             previous_item_id ==
                 IF event_param.has_previous_item_id
                 THEN event_param.previous_item_id
                 ELSE Some(last_item_id(tc.conversation_group))
             e_p == [event_param EXCEPT !.item.id = Some(item_id),
                                        !.has_previous_item_id = TRUE,
                                        !.previous_item_id = previous_item_id]
             r == Impatience_handle_create(tc, e_p)
         IN  [raised |-> r.raised, tc |-> r.tc, event |-> e_p,
              drew_uuid |-> drew]
    ELSE [raised |-> FALSE, tc |-> tc, event |-> event_param,
          drew_uuid |-> FALSE]

(***************************************************************************)
(* class GiveClientEventId (give_client_event_id.py).                      *)
(***************************************************************************)
\* f'{n:05d}'
ZeroPadded5(n) ==
    IF n < 10 THEN "0000" \o ToString(n)
    ELSE IF n < 100 THEN "000" \o ToString(n)
    ELSE IF n < 1000 THEN "00" \o ToString(n)
    ELSE IF n < 10000 THEN "0" \o ToString(n)
    ELSE ToString(n)

\* client_event_handler that assigns nothing
GiveClientEventId_assigns_nothing(count, eventParam) ==
    [c |-> count, event |-> eventParam]

\* client_event_handler that draws no new serial from the counter
GiveClientEventId_reuses_serial(count, eventParam) ==
    IF eventParam.event_id # None
    THEN [c |-> count, event |-> eventParam]
    ELSE [c |-> count,
          event |-> [eventParam EXCEPT !.event_id =
                        Some("client-" \o ZeroPadded5(count) \o "-auto")]]

\* client_event_handler: [c, event]
GiveClientEventId_client_event_handler(count, eventParam) ==
    IF eventParam.event_id # None
    THEN [c |-> count, event |-> eventParam]
    ELSE [c |-> count + 1,
          event |-> [eventParam EXCEPT !.event_id =
                        Some("client-" \o ZeroPadded5(count) \o "-auto")]]


(***************************************************************************)
(* The pipeline (shared.py, hook_handlers) around the engine, and what the *)
(* caller and the server may hand to it.                                   *)
(***************************************************************************)
MaxEvents == 4          \* events handled in one session, sent and received

ItemIdOrder == <<"A", "B">>     \* item ids a caller or the server may choose
ItemIds == {ItemIdOrder[i] : i \in 1..Len(ItemIdOrder)}
Payloads == {"p", "q"}
ResponseIds == {"R1"}
ConversationIds == {"conv_1"}
CallerEventIds == {"my-event"}  \* an event_id the caller supplies itself

ServerEventId(n) == "event_" \o ToString(n)

\* The item ids the engine has heard of, and those an event may name: the
\* ones heard of and one more.  Ids are interchangeable, so the one more is
\* the first of ItemIdOrder not heard of yet.
HeardOf == DOMAIN track_conversation.all_items

UnheardOf == {i \in 1..Len(ItemIdOrder) : ItemIdOrder[i] \notin HeardOf}

NameableItemIds ==
    HeardOf \cup {ClientSetId(k) : k \in 1..n_uuid}
            \cup {ItemIdOrder[i] : i \in {j \in UnheardOf :
                                            \A k \in UnheardOf : j <= k}}

\* The payload an event may give an item: any, when the engine holds an item
\* of that id to compare it with; "p" for an item it first hears of.
PayloadsFor(item_id) == IF item_id \in HeardOf THEN Payloads ELSE {"p"}

\* The conversation.item.create events a caller may send: with or without an
\* item id and a previous_item_id of its own, and, for the plainest of them,
\* with an event_id of its own.
ConversationItemCreateEventParam(event_id, id, previous_item_id) ==
    [type |-> "conversation.item.create",
     event_id |-> event_id,
     item |-> [id |-> id, payload |-> "p", status |-> None],
     has_previous_item_id |-> previous_item_id # None,
     previous_item_id |-> previous_item_id]

ConversationItemCreateEventParams ==
    { ConversationItemCreateEventParam(None, id, previous_item_id) :
         id \in {None} \cup {Some(i) : i \in NameableItemIds},
         previous_item_id \in {None} \cup {Some(i) : i \in NameableItemIds} }
    \cup { ConversationItemCreateEventParam(Some(e), None, None) :
              e \in CallerEventIds }

ServerItems ==
    UNION { { [id |-> Some(id), payload |-> payload,
               status |-> Some("completed")] : payload \in PayloadsFor(id) } :
            id \in NameableItemIds }

\* What the last call was: the event handed in, whether its handling raised,
\* and for a ConversationItemAdded the pending set that claimed the item.
\* A server event whose handling raised ended the receiving task: only its
\* type is kept.
Outcome(kind, event, raised, branch) ==
    [kind |-> kind,
     event |-> IF raised /\ kind = "server" THEN [type |-> event.type]
               ELSE event,
     raised |-> raised, branch |-> branch]

ConversationInit ==
    /\ track_conversation = TrackConversation_init
    /\ c = 0
    /\ n_uuid = 0
    /\ n_server_events = 0
    /\ n_client_events = 0
    /\ receiving = TRUE
    /\ sent = <<>>
    /\ last = Outcome("none", [type |-> "none"], FALSE, "-")
    /\ server_events = <<>>

\* hook_handlers.send with the outbound chain GiveClientEventId, TrackConfig,
\* TrackConversation, LogEvents: TrackConfig and LogEvents return these
\* events as they are
send(event) ==
    /\ n_client_events + n_server_events < MaxEvents
    /\ n_client_events' = n_client_events + 1
    /\ LET g == GiveClientEventId_client_event_handler(c, event)
           t == TrackConversation_client_event_handler(
                    track_conversation, g.event, n_uuid + 1)
       IN  /\ c' = g.c
           /\ track_conversation' = t.tc
           /\ n_uuid' = IF t.drew_uuid THEN n_uuid + 1 ELSE n_uuid
           /\ sent' = IF t.raised THEN sent ELSE Append(sent, t.event)
           /\ last' = Outcome("client", event, t.raised, "-")
    /\ UNCHANGED <<n_server_events, receiving, server_events>>
    /\ UNCHANGED chain_vars
    /\ UNCHANGED interrupt_vars
    /\ UNCHANGED buffer_vars
    /\ UNCHANGED runtime_vars

\* one turn of the loop of hook_handlers.keep_receiving; a handler that
\* raises ends the task
keep_receiving_turn(event) ==
    /\ receiving
    /\ n_server_events' = n_server_events + 1
    /\ LET r == TrackConversation_server_event_handler(track_conversation, event)
           branch ==
               IF event.type # "conversation.item.added" THEN "-"
               ELSE IF is_locally_synced(track_conversation, event)
               THEN "locally_synced"
               ELSE IF is_added_by_response(track_conversation, event)
               THEN "added_by_response"
               ELSE "fresh"
       IN  /\ track_conversation' = r.tc
           /\ receiving' = ~r.raised
           /\ last' = Outcome("server", event, r.raised, branch)
    /\ UNCHANGED <<c, n_uuid, n_client_events, sent>>
    /\ UNCHANGED chain_vars
    /\ UNCHANGED interrupt_vars
    /\ UNCHANGED buffer_vars
    /\ UNCHANGED runtime_vars

keep_receiving(event) ==
    /\ n_client_events + n_server_events < MaxEvents
    /\ keep_receiving_turn(event)
    /\ UNCHANGED server_events

SendConversationItemCreate ==
    \E event \in ConversationItemCreateEventParams : send(event)

ReceiveConversationItemAdded ==
    \E item \in ServerItems,
       previous_item_id \in {None} \cup {Some(i) : i \in NameableItemIds} :
        keep_receiving([type |-> "conversation.item.added",
                        event_id |-> ServerEventId(n_server_events + 1),
                        item |-> item,
                        previous_item_id |-> previous_item_id])

ReceiveConversationItemDeleted ==
    \E item_id \in NameableItemIds :
        keep_receiving([type |-> "conversation.item.deleted",
                        event_id |-> ServerEventId(n_server_events + 1),
                        item_id |-> item_id])

ReceiveResponseCreated ==
    \E id \in ResponseIds,
       conversation_id \in {None} \cup {Some(x) : x \in ConversationIds} :
        keep_receiving([type |-> "response.created",
                        event_id |-> ServerEventId(n_server_events + 1),
                        response |-> [id |-> id,
                                      conversation_id |-> conversation_id]])

ReceiveResponseOutputItemAdded ==
    \E response_id \in ResponseIds, item \in ServerItems :
        keep_receiving([type |-> "response.output_item.added",
                        event_id |-> ServerEventId(n_server_events + 1),
                        response_id |-> response_id,
                        item |-> item])

ConversationNext ==
    \/ SendConversationItemCreate
    \/ ReceiveConversationItemAdded
    \/ ReceiveConversationItemDeleted
    \/ ReceiveResponseCreated
    \/ ReceiveResponseOutputItemAdded

(***************************************************************************)
(* The response stream: the server events of a response that streams the   *)
(* content parts of its items, handled by the engine through               *)
(* keep_receiving.  Items here carry a role and their content parts.       *)
(***************************************************************************)
MaxStreamEvents == 7    \* server events handled in one session

DeltaTexts == {"He", "llo", "!"}
ContentIndices == {0, 1}
Roles == {"assistant", "user"}
PartTranscripts == {None, Some("")}  \* the transcript a part is added with

StreamItems ==
    { [id |-> Some(id), payload |-> "p", status |-> Some("in_progress"),
       role |-> role, content |-> <<>>] :
          id \in NameableItemIds, role \in Roles }

\* one turn of keep_receiving, with the engine's record of server events:
\* server_event_handler stores the event before it handles it (of an event
\* whose handling raised, the type alone is kept, as in last)
keep_receiving_recording(event) ==
    /\ n_server_events < MaxStreamEvents
    /\ keep_receiving_turn(event)
    /\ server_events' = Append(server_events, last'.event)

StreamResponseCreated ==
    \E id \in ResponseIds,
       conversation_id \in {None} \cup {Some(x) : x \in ConversationIds} :
        keep_receiving_recording(
            [type |-> "response.created",
             event_id |-> ServerEventId(n_server_events + 1),
             response |-> [id |-> id, conversation_id |-> conversation_id]])

StreamResponseOutputItemAdded ==
    \E response_id \in ResponseIds, item \in StreamItems :
        keep_receiving_recording(
            [type |-> "response.output_item.added",
             event_id |-> ServerEventId(n_server_events + 1),
             response_id |-> response_id,
             item_id |-> Get(item.id),
             item |-> item])

StreamConversationItemAdded ==
    \E item \in StreamItems,
       previous_item_id \in {None} \cup {Some(i) : i \in NameableItemIds} :
        keep_receiving_recording(
            [type |-> "conversation.item.added",
             event_id |-> ServerEventId(n_server_events + 1),
             item_id |-> Get(item.id),
             item |-> item,
             previous_item_id |-> previous_item_id])

StreamContentPartAdded ==
    \E response_id \in ResponseIds, item_id \in NameableItemIds,
       content_index \in ContentIndices, transcript \in PartTranscripts :
        keep_receiving_recording(
            [type |-> "response.content_part.added",
             event_id |-> ServerEventId(n_server_events + 1),
             response_id |-> response_id,
             item_id |-> item_id,
             content_index |-> content_index,
             part |-> [text |-> None, transcript |-> transcript]])

StreamAudioTranscriptDelta ==
    \E item_id \in NameableItemIds, content_index \in ContentIndices,
       delta \in DeltaTexts :
        keep_receiving_recording(
            [type |-> "response.output_audio_transcript.delta",
             event_id |-> ServerEventId(n_server_events + 1),
             item_id |-> item_id,
             content_index |-> content_index,
             delta |-> delta])

StreamConversationItemDeleted ==
    \E item_id \in NameableItemIds :
        keep_receiving_recording(
            [type |-> "conversation.item.deleted",
             event_id |-> ServerEventId(n_server_events + 1),
             item_id |-> item_id])

StreamNext ==
    \/ StreamResponseCreated
    \/ StreamResponseOutputItemAdded
    \/ StreamConversationItemAdded
    \/ StreamContentPartAdded
    \/ StreamAudioTranscriptDelta
    \/ StreamConversationItemDeleted

(***************************************************************************)
(* hook_handlers with chains of any handlers (shared.py 45-74) and the     *)
(* handler roster (middlewares/shared.py 10-43).                           *)
(*                                                                         *)
(* A handler is described by what the chain and the roster see of it: the  *)
(* name its MetadataHandlerRosterManager appends (None for a plain         *)
(* function such as tests/test_middlewares.py log_config), the manager's   *)
(* allow_same_handler_repeated, and the handler name its body asserts to   *)
(* be absent from the roster (Interrupt.interruptee_type).  What a body    *)
(* returns, the event or None, is an input of each pass.                   *)
(***************************************************************************)
MaxChainLen == 3
MaxChainEvents == 2

\* MetadataHandlerRosterManager.__init__ and the handler it decorates
MetadataHandlerRosterManager(handler_name, allow_same_handler_repeated) ==
    [ handler_name                |-> Some(handler_name),
      allow_same_handler_repeated |-> allow_same_handler_repeated,
      interruptee_type            |-> None ]

\* a handler that no roster manager decorates
log_config ==
    [ handler_name                |-> None,
      allow_same_handler_repeated |-> FALSE,
      interruptee_type            |-> None ]

\* an Interrupt that names no interruptee
Interrupt_handler_without_interruptee ==
    [ handler_name                |-> Some("Interrupt"),
      allow_same_handler_repeated |-> FALSE,
      interruptee_type            |-> None ]

\* what interruptable_audio_player builds: Interrupt(interruptee_type =
\* AudioPlayer) and the AudioPlayer
Interrupt_handler ==
    [ handler_name                |-> Some("Interrupt"),
      allow_same_handler_repeated |-> FALSE,
      interruptee_type            |-> Some("AudioPlayer") ]

AudioPlayer_handler == MetadataHandlerRosterManager("AudioPlayer", FALSE)

Handlers ==
    { MetadataHandlerRosterManager("TrackConfig", FALSE),
      MetadataHandlerRosterManager("TrackConfig", TRUE),
      Interrupt_handler, AudioPlayer_handler, log_config }

RECURSIVE SeqsUpTo(_, _)
SeqsUpTo(S, n) ==
    IF n = 0 THEN { <<>> }
    ELSE LET shorter == SeqsUpTo(S, n - 1)
         IN  shorter \cup { Append(q, x) : q \in shorter, x \in S }

HandlerLists == SeqsUpTo(Handlers, MaxChainLen)

\* metadata = {} : no roster key yet
EmptyMetadata == [ HANDLER_ROSTER |-> None ]

\* MetadataHandlerRosterManager.is_in_roster
is_in_roster(handler_name, metadata) ==
    IF metadata.HANDLER_ROSTER = None THEN FALSE
    ELSE \E i \in DOMAIN Get(metadata.HANDLER_ROSTER) :
             Get(metadata.HANDLER_ROSTER)[i] = handler_name

\* the wrapper without its assertion on the roster
call_handler_unchecked(handler, maybe_event, metadata) ==
    LET roster == IF metadata.HANDLER_ROSTER = None THEN <<>>
                  ELSE Get(metadata.HANDLER_ROSTER)
        after_wrapper ==
            IF handler.handler_name = None THEN metadata
            ELSE [metadata EXCEPT !.HANDLER_ROSTER =
                     Some(Append(roster, Get(handler.handler_name)))]
    IN  IF /\ handler.interruptee_type # None
           /\ is_in_roster(Get(handler.interruptee_type), after_wrapper)
        THEN [raised |-> TRUE, in_body |-> TRUE, maybe_event |-> None,
              metadata |-> after_wrapper]
        ELSE [raised |-> FALSE, in_body |-> TRUE,
              maybe_event |-> maybe_event, metadata |-> after_wrapper]

\* MetadataHandlerRosterManager.decorate.wrapper around a handler body that
\* returns maybe_event: the roster is created when absent, a name already
\* in it fails the assertion unless repetition is allowed, the name is
\* appended before the body runs.  The body of Interrupt asserts first that
\* its interruptee is not in the roster (interrupt.py 185-187).  A plain
\* function is its body alone.
call_handler(handler, maybe_event, metadata) ==
    LET roster == IF metadata.HANDLER_ROSTER = None THEN <<>>
                  ELSE Get(metadata.HANDLER_ROSTER)
        with_roster == [metadata EXCEPT !.HANDLER_ROSTER = Some(roster)]
        appended_to == [metadata EXCEPT !.HANDLER_ROSTER =
                           Some(Append(roster, Get(handler.handler_name)))]
        after_wrapper ==
            IF handler.handler_name = None
            THEN [raised |-> FALSE, metadata |-> metadata]
            ELSE IF /\ ~handler.allow_same_handler_repeated
                    /\ is_in_roster(Get(handler.handler_name), with_roster)
            THEN [raised |-> TRUE, metadata |-> with_roster]
            ELSE [raised |-> FALSE, metadata |-> appended_to]
    IN  IF after_wrapper.raised
        THEN [raised |-> TRUE, in_body |-> FALSE, maybe_event |-> None,
              metadata |-> after_wrapper.metadata]
        ELSE IF /\ handler.interruptee_type # None
                /\ is_in_roster(Get(handler.interruptee_type),
                                after_wrapper.metadata)
        THEN [raised |-> TRUE, in_body |-> TRUE, maybe_event |-> None,
              metadata |-> after_wrapper.metadata]
        ELSE [raised |-> FALSE, in_body |-> TRUE,
              maybe_event |-> maybe_event,
              metadata |-> after_wrapper.metadata]

\* what a handler body returns: the event it was given, or None
Returns == { "event", "None" }

\* the for loop of keep_receiving and of send (shared.py 58-63, 66-71),
\* from handler number n_called + 1 on
RECURSIVE for_handlers(_, _, _)
for_handlers(handlers, returns, run) ==
    LET i == run.n_called + 1
    IN  IF i > Len(handlers) THEN [run EXCEPT !.outcome = "exhausted"]
        ELSE LET r == call_handler(handlers[i],
                          IF returns[i] = "None" THEN None
                          ELSE Some(run.event), run.metadata)
                 called == [run EXCEPT !.n_called = i,
                                       !.metadata = r.metadata,
                                       !.n_bodies = IF r.in_body THEN @ + 1
                                                    ELSE @]
             IN  IF r.raised THEN [called EXCEPT !.outcome = "raised"]
                 ELSE IF r.maybe_event = None
                 THEN [called EXCEPT !.outcome = "break"]
                 ELSE for_handlers(handlers, returns,
                          [called EXCEPT !.event = Get(r.maybe_event)])

\* one event entering a chain: metadata = {} and the loop
run_chain(direction, handlers, returns, event) ==
    for_handlers(handlers, returns,
        [ direction |-> direction, given |-> event, returns |-> returns,
          event |-> event, metadata |-> EmptyMetadata,
          n_called |-> 0, n_bodies |-> 0, outcome |-> "running" ])

NoRun ==
    [ direction |-> "none", given |-> "-", returns |-> <<>>, event |-> "-",
      metadata |-> EmptyMetadata, n_called |-> 0, n_bodies |-> 0,
      outcome |-> "none" ]

ChainInit ==
    /\ server_event_handlers = None
    /\ client_event_handlers = None
    /\ chain_run = NoRun

\* hook_handlers(connection, server_event_handlers, client_event_handlers):
\* one of the two lists is the chain under study, the other is empty
hook_handlers(handlers, direction) ==
    /\ server_event_handlers = None
    /\ client_event_handlers = None
    /\ server_event_handlers' =
           Some(IF direction = "server" THEN handlers ELSE <<>>)
    /\ client_event_handlers' =
           Some(IF direction = "client" THEN handlers ELSE <<>>)
    /\ UNCHANGED <<chain_run, track_conversation, c, n_uuid,
                   n_server_events, n_client_events, receiving, sent, last,
                   server_events>>
    /\ UNCHANGED interrupt_vars
    /\ UNCHANGED buffer_vars
    /\ UNCHANGED runtime_vars

HookHandlers ==
    \E handlers \in HandlerLists, direction \in { "server", "client" } :
        /\ handlers = <<>> => direction = "server"
        /\ hook_handlers(handlers, direction)

back_to_recv_when_exhausted(outcome) == outcome = "exhausted"

\* while True of keep_receiving: break and the end of the list both lead
\* back to connection.recv(); an exception of a handler ends the coroutine
back_to_recv(outcome) == outcome # "raised"

\* one turn of the loop of keep_receiving (shared.py 52-63) with the hooked
\* server chain: an exception leaves the loop, a None or the end of the
\* list goes back to connection.recv()
chain_keep_receiving(returns) ==
    /\ receiving
    /\ n_server_events + n_client_events < MaxChainEvents
    /\ n_server_events' = n_server_events + 1
    /\ chain_run' = run_chain("server", Get(server_event_handlers), returns,
                              ServerEventId(n_server_events + 1))
    /\ receiving' = back_to_recv(chain_run'.outcome)
    /\ UNCHANGED <<server_event_handlers, client_event_handlers,
                   track_conversation, c, n_uuid, n_client_events, sent,
                   last, server_events>>
    /\ UNCHANGED interrupt_vars
    /\ UNCHANGED buffer_vars
    /\ UNCHANGED runtime_vars

ChainKeepReceiving ==
    /\ server_event_handlers # None
    /\ \E returns \in [1 .. MaxChainLen -> Returns] :
        /\ \A i \in 1 .. MaxChainLen :
               i > Len(Get(server_event_handlers)) => returns[i] = "event"
        /\ chain_keep_receiving(returns)

\* send (shared.py 65-72) with the hooked client chain: after the loop,
\* however it ended, connection.send(event); an exception of a handler
\* leaves send before that
chain_send(returns) ==
    /\ n_server_events + n_client_events < MaxChainEvents
    /\ n_client_events' = n_client_events + 1
    /\ chain_run' = run_chain("client", Get(client_event_handlers), returns,
                              "client_" \o ToString(n_client_events + 1))
    /\ sent' = IF chain_run'.outcome = "raised" THEN sent
               ELSE Append(sent, chain_run'.event)
    /\ UNCHANGED <<server_event_handlers, client_event_handlers,
                   track_conversation, c, n_uuid, n_server_events, receiving,
                   last, server_events>>
    /\ UNCHANGED interrupt_vars
    /\ UNCHANGED buffer_vars
    /\ UNCHANGED runtime_vars

ChainSend ==
    /\ client_event_handlers # None
    /\ \E returns \in [1 .. MaxChainLen -> Returns] :
        /\ \A i \in 1 .. MaxChainLen :
               i > Len(Get(client_event_handlers)) => returns[i] = "event"
        /\ chain_send(returns)

ChainNext ==
    \/ HookHandlers
    \/ ChainKeepReceiving
    \/ ChainSend

(***************************************************************************)
(* The interruptable audio player: Interrupt (interrupt.py) in front of    *)
(* AudioPlayer (audio_player.py), as interruptable_audio_player builds     *)
(* them, behind TrackConfig and TrackConversation in the server chain      *)
(* (tests/test_middlewares.py 118-125).                                    *)
(*                                                                         *)
(* Times are counted in quarters of a millisecond, so that a playhead can  *)
(* stand on half a millisecond and round() has ties to break.              *)
(***************************************************************************)
TicksPerMs == 4

\* FormatInfo.ms_per_byte of the modelled output format, in ticks
ms_per_byte == 1

\* round(x) of Python for x = ticks / TicksPerMs: to the nearest integer,
\* a tie to the even one
round_down(ticks) == ticks \div TicksPerMs

round(ticks) ==
    LET q == ticks \div TicksPerMs
        r == ticks % TicksPerMs
    IN  IF 2 * r < TicksPerMs THEN q
        ELSE IF 2 * r > TicksPerMs THEN q + 1
        ELSE IF q % 2 = 0 THEN q ELSE q + 1

\* RealtimePlaybackTracker of agents.realtime, by the calls made on it:
\* get_state returns these three fields
PlaybackTracker_init ==
    [current_item_id |-> None, current_item_content_index |-> None,
     elapsed_ms |-> None]

PlaybackTracker_on_play_ms(state, item_id, item_content_index, ms) ==
    IF /\ state.current_item_id = Some(item_id)
       /\ state.current_item_content_index = Some(item_content_index)
    THEN [state EXCEPT !.elapsed_ms = Some(Get(@) + ms)]
    ELSE [current_item_id |-> Some(item_id),
          current_item_content_index |-> Some(item_content_index),
          elapsed_ms |-> Some(ms)]

PlaybackTracker_on_interrupted(state) == PlaybackTracker_init

\* `elapsed_ms or 0.0`
OrZero(elapsed_ms) == IF elapsed_ms = None THEN 0 ELSE Get(elapsed_ms)

(***************************************************************************)
(* class TrackConfig (middlewares/track_config.py).  A session is           *)
(* [instructions, audio]; audio is None or [input, output], each None or   *)
(* [format], the format None or a format name.                             *)
(***************************************************************************)
TrackConfig_init ==
    [session_config |-> None, audio_format_input |-> None,
     audio_format_output |-> None]

AudioConfig(input, output) ==
    Some([input  |-> IF input = None THEN None ELSE Some([format |-> input]),
          output |-> IF output = None THEN None
                     ELSE Some([format |-> output])])

\* a RealtimeAudioConfig whose input section names no format (it sets the
\* turn detection, say) and that has no output section
AudioConfigInputWithoutFormat ==
    Some([input |-> Some([format |-> None]), output |-> None])

RealtimeSessionCreateRequest(instructions, audio) ==
    [instructions |-> instructions, audio |-> audio]

maybe_update_audio_formats(cfg, config) ==
    IF config.audio = None THEN cfg
    ELSE LET audio == Get(config.audio)
             cfg1 == IF audio.input # None
                     THEN [cfg EXCEPT !.audio_format_input =
                              Get(audio.input).format]
                     ELSE cfg
         IN  IF audio.output # None
             THEN [cfg1 EXCEPT !.audio_format_output =
                      Get(audio.output).format]
             ELSE cfg1

TrackConfig_server_event_handler(cfg, event) ==
    IF event.type = "session.updated"
    THEN maybe_update_audio_formats(
             [cfg EXCEPT !.session_config = Some(event.session)],
             event.session)
    ELSE cfg

TrackConfig_client_event_handler(cfg, event_param) ==
    IF event_param.type = "session.update"
    THEN maybe_update_audio_formats(
             [cfg EXCEPT !.session_config = None], event_param.session)
    ELSE cfg

(***************************************************************************)
(* class AudioPlayer.  The player is [format_info, speeches]; a speech is  *)
(* [item_id, content_index, buffer, has_more_to_come].                     *)
(***************************************************************************)
Speech(item_id, content_index) ==
    [item_id |-> item_id, content_index |-> content_index,
     buffer |-> Buffer_init, has_more_to_come |-> TRUE]

is_mission_accomplished_with_more_to_come(speech) ==
    Buffer_is_empty(speech.buffer)

is_mission_accomplished(speech) ==
    ~speech.has_more_to_come /\ Buffer_is_empty(speech.buffer)

AudioPlayer_init == [format_info |-> None, speeches |-> <<>>]

\* get_speech: [raised, i], i the place of the first speech that matches;
\* KeyError when none does
get_speech(speeches, item_id, content_index) ==
    LET matching == { i \in DOMAIN speeches :
                        /\ speeches[i].item_id = item_id
                        /\ speeches[i].content_index = content_index }
    IN  IF matching = {} THEN [raised |-> TRUE, i |-> 0]
        ELSE [raised |-> FALSE,
              i |-> CHOOSE i \in matching : \A j \in matching : i <= j]

\* server_event_handler: [raised, ap].  metadata.get(
\* skip_delta_metadata_keyword, False) with the keyword Interrupt sets
AudioPlayer_server_event_handler(ap, event, metadata) ==
    CASE event.type = "session.updated" ->
             [raised |-> FALSE,
              ap |-> [ap EXCEPT !.format_info = Some(event.format)]]
      [] event.type = "response.output_audio.delta" ->
             IF metadata.is_during_user_speech
             THEN [raised |-> FALSE, ap |-> ap]
             ELSE LET s == get_speech(ap.speeches, event.item_id,
                                      event.content_index)
                  IN  IF s.raised THEN [raised |-> TRUE, ap |-> ap]
                      ELSE [raised |-> FALSE,
                            ap |-> [ap EXCEPT !.speeches[s.i].buffer =
                                       Buffer_append(@, event.delta)]]
      [] event.type = "response.content_part.added" ->
             IF ap.format_info = None THEN [raised |-> TRUE, ap |-> ap]
             ELSE IF event.part.type = "audio"
             THEN [raised |-> FALSE,
                   ap |-> [ap EXCEPT !.speeches =
                              Append(@, Speech(event.item_id,
                                               event.content_index))]]
             ELSE [raised |-> FALSE, ap |-> ap]
      [] event.type = "response.content_part.done" ->
             IF event.part.type = "audio"
             THEN LET s == get_speech(ap.speeches, event.item_id,
                                      event.content_index)
                  IN  IF s.raised THEN [raised |-> TRUE, ap |-> ap]
                      ELSE [raised |-> FALSE,
                            ap |-> [ap EXCEPT
                                       !.speeches[s.i].has_more_to_come =
                                           FALSE]]
             ELSE [raised |-> FALSE, ap |-> ap]
      [] OTHER -> [raised |-> FALSE, ap |-> ap]

\* AudioPlayer.interrupt: the deque is cleared (the tracker's
\* on_interrupted is called by the caller of this operator)
AudioPlayer_interrupt(ap) == [ap EXCEPT !.speeches = <<>>]

\* on_audio_out with speeches in the deque: a page is popped from the head
\* speech and update(speech, n_content_bytes) is scheduled on the loop
on_audio_out(ap) ==
    LET p == Buffer_pop(ap.speeches[1].buffer)
    IN  [ap |-> [ap EXCEPT !.speeches[1].buffer = p.buf],
         update |-> [item_id |-> ap.speeches[1].item_id,
                     content_index |-> ap.speeches[1].content_index,
                     n_content_bytes |-> p.n_content_bytes]]

\* the while loop of RealtimePlaybackTrackerThreadSafe.update
RECURSIVE drain_accomplished(_)
drain_accomplished(speeches) ==
    IF speeches # <<>> /\ is_mission_accomplished(Head(speeches))
    THEN drain_accomplished(Tail(speeches))
    ELSE speeches

(***************************************************************************)
(* class Interrupt.  The coordinator is [is_user_talking,                  *)
(* already_interrupted]; the tasks it creates are kept with the loop.      *)
(***************************************************************************)
Interrupt_init == [is_user_talking |-> FALSE, already_interrupted |-> {}]

\* asyncio.create_task(self._interrupt(item_id, content_index, elapsed_ms))
InterruptTask(item_id, content_index, elapsed_ms) ==
    [current_item_id |-> item_id,
     current_item_content_index |-> content_index,
     elapsed_ms |-> elapsed_ms, pc |-> "created"]

\* _start_interrupt without the guard
start_interrupt_unguarded(it, tasks, item_id, content_index, elapsed_ms) ==
    [interrupt |-> [it EXCEPT !.already_interrupted = @ \cup {item_id}],
     tasks |-> Append(tasks,
                   InterruptTask(item_id, content_index, elapsed_ms))]

\* _start_interrupt: [interrupt, tasks]
start_interrupt(it, tasks, item_id, content_index, elapsed_ms) ==
    IF item_id \in it.already_interrupted
    THEN [interrupt |-> it, tasks |-> tasks]
    ELSE [interrupt |-> [it EXCEPT !.already_interrupted = @ \cup {item_id}],
          tasks |-> Append(tasks,
                        InterruptTask(item_id, content_index, elapsed_ms))]

\* _on_speech_started
on_speech_started(it, tasks, state) ==
    IF \/ state.current_item_id = None
       \/ state.current_item_content_index = None
    THEN [interrupt |-> it, tasks |-> tasks]
    ELSE start_interrupt(it, tasks, Get(state.current_item_id),
                         Get(state.current_item_content_index),
                         OrZero(state.elapsed_ms))

\* server_event_handler after its roster assertion:
\* [raised, interrupt, tasks, metadata]
Interrupt_server_event_handler(it, tasks, state, event, metadata) ==
    CASE event.type = "input_audio_buffer.speech_started" ->
             LET s == on_speech_started([it EXCEPT !.is_user_talking = TRUE],
                                        tasks, state)
             IN  [raised |-> FALSE, interrupt |-> s.interrupt,
                  tasks |-> s.tasks, metadata |-> metadata]
      [] event.type = "input_audio_buffer.speech_stopped" ->
             [raised |-> FALSE,
              interrupt |-> [it EXCEPT !.is_user_talking = FALSE],
              tasks |-> tasks, metadata |-> metadata]
      [] event.type = "response.output_audio.delta" ->
             IF ~it.is_user_talking
             THEN [raised |-> FALSE, interrupt |-> it, tasks |-> tasks,
                   metadata |-> metadata]
             ELSE LET elapsed ==
                          IF state.current_item_id = Some(event.item_id)
                          THEN OrZero(state.elapsed_ms) ELSE 0
                      s == start_interrupt(it, tasks, event.item_id,
                                           event.content_index, elapsed)
                  IN  IF elapsed # 0
                      THEN [raised |-> TRUE, interrupt |-> it,
                            tasks |-> tasks, metadata |-> metadata]
                      ELSE [raised |-> FALSE, interrupt |-> s.interrupt,
                            tasks |-> s.tasks,
                            metadata |-> [metadata EXCEPT
                                !.is_during_user_speech = TRUE]]
      [] OTHER -> [raised |-> FALSE, interrupt |-> it, tasks |-> tasks,
                   metadata |-> metadata]

(***************************************************************************)
(* The session of the interruptable audio player: the receive loop with    *)
(* the server chain TrackConfig, TrackConversation, Interrupt, AudioPlayer,*)
(* the device thread that calls on_audio_out, and the event loop that runs *)
(* the scheduled tracker updates and the _interrupt tasks between the      *)
(* turns of the receive loop.                                              *)
(***************************************************************************)
MaxInterruptEvents == 8     \* server events handled in one session
MaxPendingUpdates == 1      \* tracker updates scheduled and not yet run
DeltaSamples == 3           \* samples in the audio of one delta event

AudioDelta == Repeat(<<1, 1>>, DeltaSamples)

\* Cell.audio_total_bytes of a new cell (conversation_group.py)
Cell_audio_total_bytes == 0

InterruptInit ==
    /\ interrupt = Interrupt_init
    /\ audio_player = AudioPlayer_init
    /\ playback_tracker = PlaybackTracker_init
    /\ track_config = TrackConfig_init
    /\ audio_total_bytes = [id \in ItemIds |-> Cell_audio_total_bytes]
    /\ asyncio_loop = [tasks |-> <<>>, updates |-> <<>>]
    /\ iap_run = [event |-> [type |-> "none"], raised_in |-> "-",
                  metadata |-> [is_during_user_speech |-> FALSE]]

\* one turn of keep_receiving with the four handlers in a row; the handler
\* that raises ends the loop and the handlers behind it do not run
iap_keep_receiving(event) ==
    /\ receiving
    /\ n_server_events < MaxInterruptEvents
    /\ n_server_events' = n_server_events + 1
    /\ LET metadata == [is_during_user_speech |-> FALSE]
           cfg == TrackConfig_server_event_handler(track_config, event)
           t == TrackConversation_server_event_handler(track_conversation,
                                                       event)
           counted ==
               /\ event.type = "response.output_audio.delta"
               /\ ~get_cell_from_id(track_conversation.conversation_group,
                                    event.item_id).raised
           i == Interrupt_server_event_handler(interrupt, asyncio_loop.tasks,
                    playback_tracker, event, metadata)
           a == AudioPlayer_server_event_handler(audio_player, event,
                                                 i.metadata)
           raised_in == IF t.raised THEN "TrackConversation"
                        ELSE IF i.raised THEN "Interrupt"
                        ELSE IF a.raised THEN "AudioPlayer"
                        ELSE "-"
       IN  /\ track_config' = cfg
           /\ track_conversation' = t.tc
           /\ audio_total_bytes' =
                  IF counted
                  THEN [audio_total_bytes EXCEPT ![event.item_id] =
                           @ + Len(event.delta)]
                  ELSE audio_total_bytes
           /\ interrupt' = IF t.raised THEN interrupt ELSE i.interrupt
           /\ asyncio_loop' = IF t.raised THEN asyncio_loop
                              ELSE [asyncio_loop EXCEPT !.tasks = i.tasks]
           /\ audio_player' = IF t.raised \/ i.raised THEN audio_player
                              ELSE a.ap
           /\ receiving' = (raised_in = "-")
           /\ iap_run' = [event |-> event, raised_in |-> raised_in,
                          metadata |-> IF t.raised \/ i.raised THEN metadata
                                       ELSE i.metadata]
    /\ UNCHANGED <<playback_tracker, c, n_uuid, n_client_events, sent, last,
                   server_events>>
    /\ UNCHANGED chain_vars
    /\ UNCHANGED buffer_vars
    /\ UNCHANGED runtime_vars

IapSessionUpdated ==
    iap_keep_receiving([type |-> "session.updated",
                        event_id |-> ServerEventId(n_server_events + 1),
                        format |-> "audio/pcm",
                        session |-> RealtimeSessionCreateRequest("i1",
                            AudioConfig(None, Some("audio/pcm")))])

IapResponseCreated ==
    \E id \in ResponseIds :
        iap_keep_receiving([type |-> "response.created",
                            event_id |-> ServerEventId(n_server_events + 1),
                            response |-> [id |-> id,
                                          conversation_id |-> None]])

IapResponseOutputItemAdded ==
    \E response_id \in ResponseIds, id \in NameableItemIds :
        iap_keep_receiving([type |-> "response.output_item.added",
                            event_id |-> ServerEventId(n_server_events + 1),
                            response_id |-> response_id,
                            item |-> [id |-> Some(id), payload |-> "p",
                                      status |-> Some("in_progress"),
                                      role |-> "assistant",
                                      content |-> <<>>]])

IapContentPartAdded ==
    \E response_id \in ResponseIds, item_id \in HeardOf :
        iap_keep_receiving([type |-> "response.content_part.added",
                            event_id |-> ServerEventId(n_server_events + 1),
                            response_id |-> response_id,
                            item_id |-> item_id,
                            content_index |-> 0,
                            part |-> [type |-> "audio", text |-> None,
                                      transcript |-> None]])

IapAudioDelta ==
    \E item_id \in HeardOf :
        iap_keep_receiving([type |-> "response.output_audio.delta",
                            event_id |-> ServerEventId(n_server_events + 1),
                            item_id |-> item_id,
                            content_index |-> 0,
                            delta |-> AudioDelta])

IsItemTruncate(event) == event.type = "conversation.item.truncate"

\* the conversation.item.truncate events sent so far, in order
TruncatesSent == SelectSeq(sent, IsItemTruncate)

\* the server acknowledges a conversation.item.truncate that was sent with
\* a conversation.item.truncated for the same item, part and position
IapItemTruncated ==
    \E k \in DOMAIN TruncatesSent :
        iap_keep_receiving([type |-> "conversation.item.truncated",
                            event_id |-> ServerEventId(n_server_events + 1),
                            item_id |-> TruncatesSent[k].item_id,
                            content_index |-> TruncatesSent[k].content_index,
                            audio_end_ms |-> TruncatesSent[k].audio_end_ms])

IapSpeechStarted ==
    iap_keep_receiving([type |-> "input_audio_buffer.speech_started",
                        event_id |-> ServerEventId(n_server_events + 1)])

IapSpeechStopped ==
    iap_keep_receiving([type |-> "input_audio_buffer.speech_stopped",
                        event_id |-> ServerEventId(n_server_events + 1)])

\* the device thread: on_audio_out with a speech in the deque (with none it
\* returns a page of silence and changes nothing)
OnAudioOut ==
    /\ audio_player.speeches # <<>>
    /\ Len(asyncio_loop.updates) < MaxPendingUpdates
    /\ LET o == on_audio_out(audio_player)
       IN  /\ audio_player' = o.ap
           /\ asyncio_loop' = [asyncio_loop EXCEPT
                                  !.updates = Append(@, o.update)]
    /\ UNCHANGED <<interrupt, playback_tracker, track_config,
                   audio_total_bytes, iap_run>>
    /\ UNCHANGED <<track_conversation, c, n_uuid, n_server_events,
                   n_client_events, receiving, sent, last, server_events>>
    /\ UNCHANGED chain_vars
    /\ UNCHANGED buffer_vars
    /\ UNCHANGED runtime_vars

\* the loop runs the oldest scheduled
\* RealtimePlaybackTrackerThreadSafe.update(speech, n_content_bytes)
TrackerUpdate ==
    /\ asyncio_loop.updates # <<>>
    /\ LET u == Head(asyncio_loop.updates)
       IN  /\ audio_player' = [audio_player EXCEPT
                                  !.speeches = drain_accomplished(@)]
           /\ playback_tracker' =
                  PlaybackTracker_on_play_ms(playback_tracker, u.item_id,
                      u.content_index, u.n_content_bytes * ms_per_byte)
           /\ asyncio_loop' = [asyncio_loop EXCEPT !.updates = Tail(@)]
    /\ UNCHANGED <<interrupt, track_config, audio_total_bytes, iap_run>>
    /\ UNCHANGED <<track_conversation, c, n_uuid, n_server_events,
                   n_client_events, receiving, sent, last, server_events>>
    /\ UNCHANGED chain_vars
    /\ UNCHANGED buffer_vars
    /\ UNCHANGED runtime_vars

\* send of hook_handlers for the two events of _interrupt: GiveClientEventId
\* gives the event its id, the other client handlers return it as it is
ResponseCancelEventParam == [type |-> "response.cancel", event_id |-> None]

ConversationItemTruncateEventParam(item_id, content_index, audio_end_ms) ==
    [type |-> "conversation.item.truncate", event_id |-> None,
     item_id |-> item_id, content_index |-> content_index,
     audio_end_ms |-> audio_end_ms]

send_with_handlers(event) ==
    LET g == GiveClientEventId_client_event_handler(c, event)
    IN  /\ c' = g.c
        /\ n_client_events' = n_client_events + 1
        /\ sent' = Append(sent, g.event)

RemoveAt(s, k) == SubSeq(s, 1, k - 1) \o SubSeq(s, k + 1, Len(s))

\* what _interrupt evaluates between on_interrupted and its first send
\* raises: the cell is in no container, the output format is unknown, the
\* item has no audio bytes (division by zero), the item or its content
\* part does not exist
interrupt_raises_before_send(task) ==
    \/ get_cell_from_id(track_conversation.conversation_group,
                        task.current_item_id).raised
    \/ track_config.audio_format_output = None
    \/ audio_total_bytes[task.current_item_id] * ms_per_byte = 0
    \/ task.current_item_id \notin DOMAIN track_conversation.all_items
    \/ ~is_assistant_message(
           track_conversation.all_items[task.current_item_id])
    \/ task.current_item_content_index >=
           Len(track_conversation.all_items[task.current_item_id].content)

\* cell.audio_truncate = (current_item_content_index, round(elapsed_ms)),
\* the first thing _interrupt does with the cell it found (the parts of
\* this session carry no transcript, so truncated_transcript is not set)
interrupt_marks_cell(tc, task) ==
    LET g == get_cell_from_id(tc.conversation_group, task.current_item_id)
    IN  IF g.raised THEN tc
        ELSE [tc EXCEPT !.conversation_group =
                 with_cell(@, task.current_item_id,
                     [g.cell EXCEPT !.audio_truncate =
                         Some(<<task.current_item_content_index,
                                round(task.elapsed_ms)>>)])]

\* _interrupt from its start to the await of its first send: playback is
\* stopped, the cell is marked, then response.cancel goes down the client
\* chain
interrupt_until_cancel(k) ==
    /\ asyncio_loop.tasks[k].pc = "created"
    /\ audio_player' = AudioPlayer_interrupt(audio_player)
    /\ playback_tracker' = PlaybackTracker_on_interrupted(playback_tracker)
    /\ track_conversation' = interrupt_marks_cell(track_conversation,
                                                 asyncio_loop.tasks[k])
    /\ IF interrupt_raises_before_send(asyncio_loop.tasks[k])
       THEN /\ asyncio_loop' = [asyncio_loop EXCEPT
                                   !.tasks = RemoveAt(@, k)]
            /\ UNCHANGED <<c, n_client_events, sent>>
       ELSE /\ asyncio_loop' = [asyncio_loop EXCEPT
                                   !.tasks[k].pc = "cancel_sent"]
            /\ send_with_handlers(ResponseCancelEventParam)
    /\ UNCHANGED <<interrupt, track_config, audio_total_bytes, iap_run>>
    /\ UNCHANGED <<n_uuid, n_server_events, receiving, last, server_events>>
    /\ UNCHANGED chain_vars
    /\ UNCHANGED buffer_vars
    /\ UNCHANGED runtime_vars

\* _interrupt after its first send: conversation.item.truncate goes down
\* the client chain and the task ends
interrupt_truncate(k) ==
    /\ asyncio_loop.tasks[k].pc = "cancel_sent"
    /\ LET task == asyncio_loop.tasks[k]
       IN  send_with_handlers(ConversationItemTruncateEventParam(
               task.current_item_id, task.current_item_content_index,
               round(task.elapsed_ms)))
    /\ asyncio_loop' = [asyncio_loop EXCEPT !.tasks = RemoveAt(@, k)]
    /\ UNCHANGED <<interrupt, audio_player, playback_tracker, track_config,
                   audio_total_bytes, iap_run>>
    /\ UNCHANGED <<track_conversation, n_uuid, n_server_events, receiving,
                   last, server_events>>
    /\ UNCHANGED chain_vars
    /\ UNCHANGED buffer_vars
    /\ UNCHANGED runtime_vars

InterruptUntilCancel ==
    \E k \in DOMAIN asyncio_loop.tasks : interrupt_until_cancel(k)

InterruptTruncate ==
    \E k \in DOMAIN asyncio_loop.tasks : interrupt_truncate(k)

InterruptNext ==
    \/ IapSessionUpdated
    \/ IapResponseCreated
    \/ IapResponseOutputItemAdded
    \/ IapContentPartAdded
    \/ IapAudioDelta
    \/ IapSpeechStarted
    \/ IapSpeechStopped
    \/ IapItemTruncated
    \/ OnAudioOut
    \/ TrackerUpdate
    \/ InterruptUntilCancel
    \/ InterruptTruncate

(***************************************************************************)
(* The Event ID allocator on its own: hook_handlers with the outbound      *)
(* chain [GiveClientEventId().client_event_handler], given events with and *)
(* without an event_id of the caller's.                                    *)
(***************************************************************************)
MaxGiven == 12          \* events sent through the allocator

\* f'client-{n:05d}-auto'
AutoId(n) == "client-" \o ZeroPadded5(n) \o "-auto"

ClientEventParams ==
    { [type |-> "input_audio_buffer.commit", event_id |-> event_id] :
         event_id \in {None} \cup {Some(e) : e \in CallerEventIds} }

\* hook_handlers.send with GiveClientEventId as the only handler
GiveClientEventId_send(eventParam) ==
    /\ n_client_events < MaxGiven
    /\ n_client_events' = n_client_events + 1
    /\ LET g == GiveClientEventId_client_event_handler(c, eventParam)
       IN  /\ c' = g.c
           /\ sent' = Append(sent, g.event)
           /\ last' = Outcome("client", eventParam, FALSE, "-")
    /\ UNCHANGED <<track_conversation, n_uuid, n_server_events, receiving,
                   server_events>>
    /\ UNCHANGED chain_vars
    /\ UNCHANGED interrupt_vars
    /\ UNCHANGED buffer_vars
    /\ UNCHANGED runtime_vars

GiveClientEventIdSend ==
    \E eventParam \in ClientEventParams : GiveClientEventId_send(eventParam)

AllocatorNext == GiveClientEventIdSend

(***************************************************************************)
(* The Configuration Tracker on its own: hook_handlers with                *)
(* [track_config.server_event_handler] and                                 *)
(* [track_config.client_event_handler].  The caller sends session.update   *)
(* events, and others; the server acknowledges the updates in the order    *)
(* they were sent, each with a session.updated that carries the session of *)
(* the update.                                                             *)
(***************************************************************************)
MaxConfigEvents == 6    \* events sent and received in one session

Sessions ==
    { RealtimeSessionCreateRequest("i1", None),
      RealtimeSessionCreateRequest("i2",
          AudioConfig(Some("audio/pcm"), Some("audio/pcm"))),
      RealtimeSessionCreateRequest("i3",
          AudioConfig(None, Some("audio/pcmu"))),
      \* an input section that sets the turn detection and names no format
      RealtimeSessionCreateRequest("i4", AudioConfigInputWithoutFormat) }

SessionUpdateEventParam(session) ==
    [type |-> "session.update", session |-> session]

IsSessionUpdate(event) == event.type = "session.update"

\* the session.update events sent so far, in order
SessionUpdatesSent == SelectSeq(sent, IsSessionUpdate)

config_send(event_param) ==
    /\ n_client_events + n_server_events < MaxConfigEvents
    /\ n_client_events' = n_client_events + 1
    /\ track_config' = TrackConfig_client_event_handler(track_config,
                                                        event_param)
    /\ sent' = Append(sent, event_param)
    /\ last' = Outcome("client", event_param, FALSE, "-")
    /\ UNCHANGED <<track_conversation, c, n_uuid, n_server_events, receiving,
                   server_events>>
    /\ UNCHANGED chain_vars
    /\ UNCHANGED <<interrupt, audio_player, playback_tracker,
                   audio_total_bytes, asyncio_loop, iap_run>>
    /\ UNCHANGED buffer_vars
    /\ UNCHANGED runtime_vars

ConfigSendSessionUpdate ==
    \E session \in Sessions : config_send(SessionUpdateEventParam(session))

ConfigSendOther == config_send([type |-> "input_audio_buffer.commit"])

\* keep_receiving takes the acknowledgement of the oldest update not yet
\* acknowledged
ConfigSessionUpdated ==
    /\ receiving
    /\ n_client_events + n_server_events < MaxConfigEvents
    /\ n_server_events < Len(SessionUpdatesSent)
    /\ n_server_events' = n_server_events + 1
    /\ LET event == [type |-> "session.updated",
                     event_id |-> ServerEventId(n_server_events + 1),
                     session |->
                         SessionUpdatesSent[n_server_events + 1].session]
       IN  /\ track_config' = TrackConfig_server_event_handler(track_config,
                                                               event)
           /\ last' = Outcome("server", event, FALSE, "-")
    /\ UNCHANGED <<track_conversation, c, n_uuid, n_client_events, receiving,
                   sent, server_events>>
    /\ UNCHANGED chain_vars
    /\ UNCHANGED <<interrupt, audio_player, playback_tracker,
                   audio_total_bytes, asyncio_loop, iap_run>>
    /\ UNCHANGED buffer_vars
    /\ UNCHANGED runtime_vars

ConfigNext ==
    \/ ConfigSendSessionUpdate
    \/ ConfigSendOther
    \/ ConfigSessionUpdated

(***************************************************************************)
(* The transport and the two receiving loops: keep_receiving of            *)
(* hook_handlers (shared.py) and Interface._listen_for_messages            *)
(* (interface.py), and send with the transport open or closed.  A frame is *)
(* [kind, n]: a well-formed event, a frame that is not JSON, or JSON that  *)
(* is no event of the schema.  The handlers given to either loop raise     *)
(* nothing.                                                                *)
(***************************************************************************)
MaxFrames == 4          \* frames the server delivers
MaxSends == 2           \* calls of send

FrameKinds == {"event", "not_json", "bad_schema"}

TransportInit ==
    /\ websocket = [frames |-> <<>>, n_delivered |-> 0, closed |-> "no"]
    /\ listener = [kind |-> None, alive |-> FALSE, handled |-> <<>>,
                   exit |-> "-"]

\* the rest of the state, which the transport actions leave alone
transport_others ==
    <<track_conversation, c, n_uuid, n_server_events, receiving,
      server_events, chain_vars, interrupt_vars, buffer_vars, device_vars>>

\* asyncio.create_task(keep_receiving()) or Interface.connect
create_task(kind) ==
    /\ listener.kind = None
    /\ listener' = [listener EXCEPT !.kind = Some(kind), !.alive = TRUE]
    /\ UNCHANGED <<websocket, sent, last, n_client_events>>
    /\ UNCHANGED transport_others

CreateTaskKeepReceiving == create_task("keep_receiving")

CreateTaskListenForMessages == create_task("_listen_for_messages")

ServerDelivers ==
    \E kind \in FrameKinds :
        /\ websocket.closed = "no"
        /\ websocket.n_delivered < MaxFrames
        /\ websocket' = [websocket EXCEPT
               !.frames = Append(@, [kind |-> kind,
                                     n |-> websocket.n_delivered + 1]),
               !.n_delivered = @ + 1]
        /\ UNCHANGED <<listener, sent, last, n_client_events>>
        /\ UNCHANGED transport_others

\* the connection closes: normally ("ok") or not ("error")
WebsocketClose ==
    \E how \in {"ok", "error"} :
        /\ websocket.closed = "no"
        /\ websocket' = [websocket EXCEPT !.closed = how]
        /\ UNCHANGED <<listener, sent, last, n_client_events>>
        /\ UNCHANGED transport_others

\* AsyncRealtimeConnection.recv on a frame: json.loads, then
\* construct_type_unchecked, which validates nothing
recv(frame) ==
    IF frame.kind = "not_json"
    THEN [raised |-> TRUE, exception |-> "JSONDecodeError",
          event |-> [type |-> "none"]]
    ELSE [raised |-> FALSE, exception |-> "-",
          event |-> [type |-> IF frame.kind = "event" THEN "event"
                              ELSE "unvalidated",
                     n |-> frame.n]]

Ended(l, exit) == [l EXCEPT !.alive = FALSE, !.exit = exit]

Handled(l, what) == [l EXCEPT !.handled = Append(@, what)]

\* one turn of the loop of keep_receiving
transport_keep_receiving ==
    /\ listener.kind = Some("keep_receiving")
    /\ listener.alive
    /\ IF websocket.frames # <<>>
       THEN LET r == recv(Head(websocket.frames))
            IN  /\ websocket' = [websocket EXCEPT !.frames = Tail(@)]
                /\ listener' = IF r.raised THEN Ended(listener, r.exception)
                               ELSE Handled(listener, r.event)
       ELSE /\ websocket.closed # "no"
            /\ listener' = IF websocket.closed = "ok"
                           THEN Ended(listener, "return")
                           ELSE Ended(listener, "ConnectionClosedError")
            /\ UNCHANGED websocket
    /\ UNCHANGED <<sent, last, n_client_events>>
    /\ UNCHANGED transport_others

InterfaceException(context, n) ==
    [type |-> "InterfaceException", context |-> context, n |-> n]

\* one turn of `async for message in self._websocket` with its handlers of
\* exceptions, _handle_ws_event included
listen_for_messages ==
    /\ listener.kind = Some("_listen_for_messages")
    /\ listener.alive
    /\ IF websocket.frames # <<>>
       THEN LET frame == Head(websocket.frames)
            IN  /\ websocket' = [websocket EXCEPT !.frames = Tail(@)]
                /\ listener' =
                       IF frame.kind = "not_json"
                       THEN Handled(listener, InterfaceException(
                               "Failed to parse WebSocket message as JSON",
                               frame.n))
                       ELSE IF frame.kind = "bad_schema"
                       THEN Handled(listener, InterfaceException(
                               "Failed to validate server event", frame.n))
                       ELSE Handled(listener,
                                    [type |-> "event", n |-> frame.n])
       ELSE /\ websocket.closed # "no"
            /\ listener' =
                   IF websocket.closed = "ok" THEN Ended(listener, "return")
                   ELSE Ended(Handled(listener, InterfaceException(
                                 "WebSocket connection closed unexpectedly",
                                 0)),
                              "return")
            /\ UNCHANGED websocket
    /\ UNCHANGED <<sent, last, n_client_events>>
    /\ UNCHANGED transport_others

\* connection.send: raises when the connection is closed
connection_send(event) ==
    IF websocket.closed = "no" THEN [raised |-> FALSE, exception |-> "-"]
    ELSE IF websocket.closed = "ok"
    THEN [raised |-> TRUE, exception |-> "ConnectionClosedOK"]
    ELSE [raised |-> TRUE, exception |-> "ConnectionClosedError"]

\* send of hook_handlers with no handler in the chain: what connection.send
\* raises reaches the caller (last.raised, last.branch)
transport_send ==
    /\ n_client_events < MaxSends
    /\ n_client_events' = n_client_events + 1
    /\ LET event == [type |-> "input_audio_buffer.commit",
                     event_id |-> Some("my-event")]
           s == connection_send(event)
       IN  /\ sent' = IF s.raised THEN sent ELSE Append(sent, event)
           /\ last' = Outcome("client", event, s.raised, s.exception)
    /\ UNCHANGED <<websocket, listener>>
    /\ UNCHANGED transport_others

TransportNext ==
    \/ CreateTaskKeepReceiving
    \/ CreateTaskListenForMessages
    \/ ServerDelivers
    \/ WebsocketClose
    \/ transport_keep_receiving
    \/ listen_for_messages
    \/ transport_send

(***************************************************************************)
(* conversation.item.added on the wire.  The server names the item before  *)
(* the new one as previous_item_id: an item id, null, or the empty string. *)
(* Either receiving loop hands the event to the State Engine:              *)
(* keep_receiving as connection.recv built it, _listen_for_messages after  *)
(* _handle_ws_event.                                                       *)
(***************************************************************************)
MaxWireEvents == 3      \* conversation.item.added frames delivered

WirePreviousItemIds ==
    {None, Some(""), Some(root)} \cup {Some(i) : i \in ItemIds}

ServerDeliversItemAdded ==
    \E id \in ItemIds, previous_item_id \in WirePreviousItemIds :
        /\ websocket.closed = "no"
        /\ websocket.n_delivered < MaxWireEvents
        /\ websocket' = [websocket EXCEPT
               !.frames = Append(@,
                   [kind |-> "event", n |-> websocket.n_delivered + 1,
                    event |-> [type |-> "conversation.item.added",
                               event_id |->
                                   ServerEventId(websocket.n_delivered + 1),
                               item |-> [id |-> Some(id), payload |-> "p",
                                         status |-> Some("completed")],
                               previous_item_id |-> previous_item_id]]),
               !.n_delivered = @ + 1]
        /\ UNCHANGED <<listener, sent, last, n_client_events>>
        /\ UNCHANGED transport_others

\* _handle_ws_event, lines 203-204: '' becomes None
handle_ws_event(event) ==
    IF event.previous_item_id = Some("")
    THEN [event EXCEPT !.previous_item_id = None]
    ELSE event

wire_others ==
    <<c, n_uuid, n_client_events, sent, server_events, chain_vars,
      interrupt_vars, buffer_vars, device_vars>>

\* one turn of keep_receiving with the State Engine as the only handler: an
\* exception of the handler ends the task
wire_keep_receiving ==
    /\ listener.kind = Some("keep_receiving")
    /\ listener.alive
    /\ websocket.frames # <<>>
    /\ LET event == Head(websocket.frames).event
           r == TrackConversation_server_event_handler(track_conversation,
                                                       event)
       IN  /\ websocket' = [websocket EXCEPT !.frames = Tail(@)]
           /\ n_server_events' = n_server_events + 1
           /\ track_conversation' = r.tc
           /\ receiving' = ~r.raised
           /\ listener' = IF r.raised THEN Ended(listener, "raised")
                          ELSE Handled(listener, [type |-> event.type,
                                                  n |-> n_server_events + 1])
           /\ last' = Outcome("server", event, r.raised, "-")
    /\ UNCHANGED wire_others

\* one turn of _listen_for_messages with the State Engine as the only
\* handler: an exception of the handler is reported to the handlers, which
\* leave an InterfaceException alone, and the loop goes on
wire_listen_for_messages ==
    /\ listener.kind = Some("_listen_for_messages")
    /\ listener.alive
    /\ websocket.frames # <<>>
    /\ LET event == handle_ws_event(Head(websocket.frames).event)
           r == TrackConversation_server_event_handler(track_conversation,
                                                       event)
       IN  /\ websocket' = [websocket EXCEPT !.frames = Tail(@)]
           /\ n_server_events' = n_server_events + 1
           /\ track_conversation' = r.tc
           /\ listener' =
                  IF r.raised
                  THEN Handled(listener, InterfaceException(
                          "Error handling WebSocket event",
                          n_server_events + 1))
                  ELSE Handled(listener, [type |-> event.type,
                                          n |-> n_server_events + 1])
           /\ last' = Outcome("server", event, r.raised, "-")
    /\ UNCHANGED receiving
    /\ UNCHANGED wire_others

WireNext ==
    \/ CreateTaskKeepReceiving
    \/ CreateTaskListenForMessages
    \/ ServerDeliversItemAdded
    \/ wire_keep_receiving
    \/ wire_listen_for_messages

(***************************************************************************)
(* The audio configuration (audio_config.py): ConfigSpecification and its  *)
(* resolve.  Latencies are counted in hundredths of a millisecond, so the  *)
(* quotients of resolve are fractions of integers; Python's float rounding *)
(* is not modelled.                                                        *)
(***************************************************************************)
HundredthsPerMs == 100

MaxWindowStep == 12     \* window bounds from 80.00 ms on, in hundredths

\* round(p / q) of Python, for p >= 0 and q > 0: to the nearest integer,
\* ties to the even one
round_ratio(p, q) ==
    LET f == p \div q
        r == p % q
    IN  IF 2 * r < q THEN f
        ELSE IF 2 * r > q THEN f + 1
        ELSE IF f % 2 = 0 THEN f ELSE f + 1

\* FormatInfo.sample_rate: the value patterns AudioPCMA and AudioPCMU
\* (no parentheses) compare the format with the class and match no format
sample_rate(format) ==
    IF format = "audio/pcm" THEN [raised |-> "-", rate |-> 24000]
    ELSE [raised |-> "ValueError", rate |-> 0]

NoLatency == [kind |-> "None", min |-> 0, max |-> 0]
Latency(ms) == [kind |-> "float", min |-> ms, max |-> ms]
Window(min, max) == [kind |-> "tuple", min |-> min, max |-> max]

\* ConfigSpecification(...) with __post_init__: [raised, specification]
ConfigSpecification(format, n_samples_per_page, page_latency_ms) ==
    [raised |->
         IF n_samples_per_page = None /\ page_latency_ms.kind = "None"
         THEN "UnderSpecified"
         ELSE IF n_samples_per_page # None /\ page_latency_ms.kind = "float"
         THEN "OverSpecified"
         ELSE "-",
     format |-> format,
     n_samples_per_page |-> n_samples_per_page,
     page_latency_ms |-> page_latency_ms]

\* min_ <= info.ms_per_page <= max_, with ms_per_page = n / rate * 1000.0
ms_per_page_within(n_samples_per_page, rate, min, max) ==
    /\ min * rate <= n_samples_per_page * 1000 * HundredthsPerMs
    /\ n_samples_per_page * 1000 * HundredthsPerMs <= max * rate

Raises(exception) ==
    [raised |-> exception, n_samples_per_page |-> 0, sample_rate |-> 0]

ConfigInfo(n_samples_per_page, rate) ==
    [raised |-> "-", n_samples_per_page |-> n_samples_per_page,
     sample_rate |-> rate]

\* resolve: the ConfigInfo, or what is raised.  The sample rate is read
\* from format_info where the code first reads it.
resolve(self, server_proposed) ==
    LET format == IF self.format # None THEN self.format ELSE server_proposed
    IN  IF format = None THEN Raises("UnderSpecified")
        ELSE
        LET sr == sample_rate(Get(format))
            latency == self.page_latency_ms
        IN  IF self.n_samples_per_page # None
            THEN IF latency.kind = "tuple"
                 THEN IF sr.raised # "-" THEN Raises(sr.raised)
                      ELSE IF ms_per_page_within(
                                 Get(self.n_samples_per_page), sr.rate,
                                 latency.min, latency.max)
                      THEN ConfigInfo(Get(self.n_samples_per_page), sr.rate)
                      ELSE Raises("AssertionError")
                 ELSE ConfigInfo(Get(self.n_samples_per_page), sr.rate)
            ELSE IF sr.raised # "-" THEN Raises(sr.raised)
            ELSE ConfigInfo(
                     round_ratio((latency.min + latency.max) * sr.rate,
                                 2 * 1000 * HundredthsPerMs),
                     sr.rate)

WindowBounds == {8000 + k : k \in 0..MaxWindowStep} \cup {9000}

PageLatencies ==
    {NoLatency} \cup {Latency(ms) : ms \in {8000, 8533}}
                \cup {Window(w[1], w[2]) :
                         w \in {x \in WindowBounds \X WindowBounds :
                                   x[1] <= x[2]}}

AudioFormats == {"audio/pcm", "audio/pcma"}

ResolveInit ==
    config_info = [specification |-> ConfigSpecification(None, None,
                                                         NoLatency),
                   server_proposed |-> None,
                   info |-> Raises("-")]

\* a ConfigSpecification is built and, unless that raises, resolved
Resolve ==
    \E format \in {None} \cup {Some(f) : f \in AudioFormats},
       server_proposed \in {None, Some("audio/pcm")},
       n_samples_per_page \in {None, Some(1920), Some(2048)},
       page_latency_ms \in PageLatencies :
        LET self == ConfigSpecification(format, n_samples_per_page,
                                        page_latency_ms)
        IN  /\ config_info' =
                   [specification |-> self,
                    server_proposed |-> server_proposed,
                    info |-> IF self.raised # "-" THEN Raises(self.raised)
                             ELSE resolve(self, server_proposed)]
            /\ UNCHANGED conversation_vars
            /\ UNCHANGED buffer_vars
            /\ UNCHANGED transport_vars
            /\ UNCHANGED player_vars
            /\ UNCHANGED mic_vars

ResolveNext == Resolve

(***************************************************************************)
(* The Audio Player between its two threads: the device thread runs        *)
(* on_audio_out, one statement at a time, and the loop's thread runs the   *)
(* server event handler, the tracker updates and interrupt.  hook_handlers *)
(* has the inbound chain [audio_player.server_event_handler]; interrupt is *)
(* called by the application.  A statement under `with self.lock' waits    *)
(* until the lock is free; a statement outside it does not.                *)
(***************************************************************************)
MaxPlayerEvents == 5    \* server events handled in one session

\* the content parts the server announces, each at most once
Parts == {<<"A", 0>>, <<"B", 0>>}

\* the on-speech-end handlers an application may register
OnSpeechEndHandlers == {"h1", "h2"}

PartOf(speech) == <<speech.item_id, speech.content_index>>

DeviceThread_init == [pc |-> "idle", speech |-> None, raised |-> "-"]

SpeechEnd_init ==
    [handlers |-> {}, fired |-> <<>>, drained |-> <<>>, cleared |-> {}]

PlayerInit ==
    /\ lock = "free"
    /\ device_thread = DeviceThread_init
    /\ speech_end = SpeechEnd_init

player_others ==
    <<interrupt, track_config, audio_total_bytes,
      track_conversation, c, n_uuid, n_client_events, sent, last,
      server_events, chain_vars, buffer_vars, transport_vars, config_info,
      mic_vars>>

\* the parts the server has announced so far: in the deque, drained from
\* it or cleared from it
Announced ==
    {PartOf(audio_player.speeches[i]) : i \in DOMAIN audio_player.speeches}
        \cup {speech_end.drained[i].part : i \in DOMAIN speech_end.drained}
        \cup speech_end.cleared

\* the statements of server_event_handler that run under `with self.lock'
takes_lock(event, raised) ==
    /\ ~raised
    /\ \/ event.type = "response.output_audio.delta"
       \/ /\ event.type = "response.content_part.added"
          /\ event.part.type = "audio"

\* one turn of keep_receiving; the handler that raises ends the loop
player_keep_receiving(event) ==
    /\ receiving
    /\ n_server_events < MaxPlayerEvents
    /\ n_server_events' = n_server_events + 1
    /\ LET metadata == [is_during_user_speech |-> FALSE]
           a == AudioPlayer_server_event_handler(audio_player, event,
                                                 metadata)
       IN  /\ takes_lock(event, a.raised) => lock = "free"
           /\ audio_player' = a.ap
           /\ receiving' = ~a.raised
           /\ iap_run' = [event |-> event,
                          raised_in |-> IF a.raised THEN "AudioPlayer"
                                        ELSE "-",
                          metadata |-> metadata]
    /\ UNCHANGED <<playback_tracker, asyncio_loop>>
    /\ UNCHANGED player_vars
    /\ UNCHANGED player_others

PlayerSessionUpdated ==
    /\ audio_player.format_info = None
    /\ player_keep_receiving(
           [type |-> "session.updated",
            event_id |-> ServerEventId(n_server_events + 1),
            format |-> "audio/pcm",
            session |-> RealtimeSessionCreateRequest("i1",
                            AudioConfig(None, Some("audio/pcm")))])

PlayerContentPartAdded ==
    \E part \in Parts \ Announced :
        player_keep_receiving(
            [type |-> "response.content_part.added",
             event_id |-> ServerEventId(n_server_events + 1),
             response_id |-> "R1",
             item_id |-> part[1],
             content_index |-> part[2],
             part |-> [type |-> "audio", text |-> None,
                       transcript |-> None]])

PlayerAudioDelta ==
    \E part \in Announced :
        player_keep_receiving(
            [type |-> "response.output_audio.delta",
             event_id |-> ServerEventId(n_server_events + 1),
             item_id |-> part[1],
             content_index |-> part[2],
             delta |-> AudioDelta])

PlayerContentPartDone ==
    \E part \in Announced :
        player_keep_receiving(
            [type |-> "response.content_part.done",
             event_id |-> ServerEventId(n_server_events + 1),
             response_id |-> "R1",
             item_id |-> part[1],
             content_index |-> part[2],
             part |-> [type |-> "audio", text |-> None,
                       transcript |-> None]])

\* on_audio_out, `with self.lock:' -- the stream runs once session.updated
\* has opened it
DeviceAcquire ==
    /\ audio_player.format_info # None
    /\ device_thread.pc = "idle"
    /\ Len(asyncio_loop.updates) < MaxPendingUpdates
    /\ lock = "free"
    /\ lock' = "device"
    /\ device_thread' = [device_thread EXCEPT !.pc = "entered"]
    /\ UNCHANGED <<audio_player, playback_tracker, asyncio_loop, speech_end,
                   iap_run, receiving, n_server_events>>
    /\ UNCHANGED player_others

\* on_audio_out, `if not self.speeches: return silence_page'
DeviceCheck ==
    /\ device_thread.pc = "entered"
    /\ IF audio_player.speeches = <<>>
       THEN /\ device_thread' = [device_thread EXCEPT !.pc = "idle"]
            /\ lock' = "free"
       ELSE /\ device_thread' = [device_thread EXCEPT !.pc = "nonempty"]
            /\ lock' = lock
    /\ UNCHANGED <<audio_player, playback_tracker, asyncio_loop, speech_end,
                   iap_run, receiving, n_server_events>>
    /\ UNCHANGED player_others

\* on_audio_out, `speech = self.speeches[0]': IndexError on an empty deque
\* leaves the with block and the callback
DeviceHead ==
    /\ device_thread.pc = "nonempty"
    /\ IF audio_player.speeches = <<>>
       THEN /\ device_thread' = [device_thread EXCEPT
                                    !.pc = "raised", !.raised = "IndexError"]
            /\ lock' = "free"
       ELSE /\ device_thread' = [device_thread EXCEPT
                                    !.pc = "got",
                                    !.speech = Some(audio_player.speeches[1])]
            /\ lock' = lock
    /\ UNCHANGED <<audio_player, playback_tracker, asyncio_loop, speech_end,
                   iap_run, receiving, n_server_events>>
    /\ UNCHANGED player_others

\* on_audio_out, `speech.buffer.pop()', update_soon_threadsafe and the end
\* of the with block.  The speech is the object read from the deque, in the
\* deque or no longer; the update is scheduled when the player was given
\* a playback tracker (playback_tracker_thread_safe is not None)
device_pop(has_playback_tracker) ==
    /\ device_thread.pc = "got"
    /\ LET held == [audio_player EXCEPT
                       !.speeches = <<Get(device_thread.speech)>>]
           o == IF audio_player.speeches # <<>>
                THEN on_audio_out(audio_player) ELSE on_audio_out(held)
       IN  /\ audio_player' = IF audio_player.speeches # <<>> THEN o.ap
                              ELSE audio_player
           /\ asyncio_loop' = IF has_playback_tracker
                              THEN [asyncio_loop EXCEPT
                                       !.updates = Append(@, o.update)]
                              ELSE asyncio_loop
    /\ device_thread' = [device_thread EXCEPT !.pc = "idle",
                                              !.speech = None]
    /\ lock' = "free"
    /\ UNCHANGED <<playback_tracker, speech_end, iap_run, receiving,
                   n_server_events>>
    /\ UNCHANGED player_others

DevicePop == device_pop(TRUE)

\* register_on_speech_end_handler of the Audio Player
register_on_speech_end_handler(se, handler) ==
    [se EXCEPT !.handlers = @ \cup {handler}]

RegisterOnSpeechEndHandler ==
    \E handler \in OnSpeechEndHandlers \ speech_end.handlers :
        /\ speech_end' = register_on_speech_end_handler(speech_end, handler)
        /\ UNCHANGED <<lock, device_thread, audio_player, playback_tracker,
                       asyncio_loop, iap_run, receiving, n_server_events>>
        /\ UNCHANGED player_others

\* the calls of the on-speech-end handlers for one drained speech, in any
\* one order of the handlers
RECURSIVE fire_on_speech_end(_, _)
fire_on_speech_end(handlers, part) ==
    IF handlers = {} THEN <<>>
    ELSE LET h == CHOOSE x \in handlers : TRUE
         IN  <<[handler |-> h, part |-> part]>>
                 \o fire_on_speech_end(handlers \ {h}, part)

\* what the update does with the speeches it drained: every registered
\* handler is fired for each of them
RECURSIVE on_speeches_drained(_, _)
on_speeches_drained(se, drained) ==
    IF drained = <<>> THEN se
    ELSE on_speeches_drained(
             [se EXCEPT
                 !.fired = @ \o fire_on_speech_end(se.handlers,
                                                   PartOf(Head(drained))),
                 !.drained = Append(@,
                     [part |-> PartOf(Head(drained)),
                      has_more_to_come |-> Head(drained).has_more_to_come,
                      buffer_is_empty |->
                          Buffer_is_empty(Head(drained).buffer),
                      handlers |-> se.handlers])],
             Tail(drained))

\* the loop runs the oldest scheduled update(speech, n_content_bytes), all
\* of it under the lock
PlayerTrackerUpdate ==
    /\ asyncio_loop.updates # <<>>
    /\ lock = "free"
    /\ LET u == Head(asyncio_loop.updates)
           left == drain_accomplished(audio_player.speeches)
           drained == Take(audio_player.speeches,
                           Len(audio_player.speeches) - Len(left))
       IN  /\ audio_player' = [audio_player EXCEPT !.speeches = left]
           /\ playback_tracker' =
                  PlaybackTracker_on_play_ms(playback_tracker, u.item_id,
                      u.content_index, u.n_content_bytes * ms_per_byte)
           /\ asyncio_loop' = [asyncio_loop EXCEPT !.updates = Tail(@)]
           /\ speech_end' = on_speeches_drained(speech_end, drained)
    /\ UNCHANGED <<lock, device_thread, iap_run, receiving, n_server_events>>
    /\ UNCHANGED player_others

\* AudioPlayer.interrupt, called on the loop's thread
player_interrupt(has_playback_tracker) ==
    /\ audio_player.speeches # <<>>
    /\ audio_player' = AudioPlayer_interrupt(audio_player)
    /\ playback_tracker' =
           IF has_playback_tracker
           THEN PlaybackTracker_on_interrupted(playback_tracker)
           ELSE playback_tracker
    /\ speech_end' = [speech_end EXCEPT !.cleared = @ \cup
           {PartOf(audio_player.speeches[i]) :
                i \in DOMAIN audio_player.speeches}]
    /\ UNCHANGED <<lock, device_thread, asyncio_loop, iap_run, receiving,
                   n_server_events>>
    /\ UNCHANGED player_others

PlayerInterrupt == player_interrupt(TRUE)

PlayerNext ==
    \/ PlayerSessionUpdated
    \/ PlayerContentPartAdded
    \/ PlayerAudioDelta
    \/ PlayerContentPartDone
    \/ DeviceAcquire
    \/ DeviceCheck
    \/ DeviceHead
    \/ DevicePop
    \/ RegisterOnSpeechEndHandler
    \/ PlayerTrackerUpdate
    \/ PlayerInterrupt

\* the Audio Player constructed with playback_tracker = None: no update is
\* ever scheduled, and the device calls on_audio_out again and again for as
\* long as the stream is open
DevicePopWithoutTracker == device_pop(FALSE)

PlayerInterruptWithoutTracker == player_interrupt(FALSE)

OnAudioOutWithoutTracker ==
    DeviceAcquire \/ DeviceCheck \/ DeviceHead \/ DevicePopWithoutTracker

PlayerWithoutTrackerNext ==
    \/ PlayerSessionUpdated
    \/ PlayerContentPartAdded
    \/ PlayerAudioDelta
    \/ PlayerContentPartDone
    \/ DeviceAcquire
    \/ DeviceCheck
    \/ DeviceHead
    \/ DevicePopWithoutTracker
    \/ PlayerInterruptWithoutTracker

(***************************************************************************)
(* The Microphone Streamer: the device thread calls on_audio_in with each  *)
(* captured frame, the loop runs the put_nowait that call_soon_threadsafe  *)
(* scheduled, and the worker task batches what is in the queue into        *)
(* input_audio_buffer.append events.  hook_handlers has the outbound chain *)
(* [GiveClientEventId().client_event_handler].                             *)
(***************************************************************************)
MaxCaptured == 4        \* frames the device delivers in one run
FrameBytes == 2         \* bytes in one captured frame

\* round(PAYLOAD_SIZE_LIMIT * 0.9), scaled down to a few frames
PAYLOAD_SIZE_THRESHOLD == 5

\* the base64 alphabet as the numbers 0..63, and '='
B64Pad == 64

\* base64.b64encode: three bytes give four characters, the last group is
\* padded
RECURSIVE b64encode(_)
b64encode(data) ==
    IF data = <<>> THEN <<>>
    ELSE LET n == Min(3, Len(data))
             v == data[1] * 65536
                    + (IF n >= 2 THEN data[2] ELSE 0) * 256
                    + (IF n = 3 THEN data[3] ELSE 0)
             q == <<v \div 262144, (v \div 4096) % 64, (v \div 64) % 64,
                    v % 64>>
         IN  (CASE n = 3 -> q
                [] n = 2 -> <<q[1], q[2], q[3], B64Pad>>
                [] n = 1 -> <<q[1], q[2], B64Pad, B64Pad>>)
                 \o b64encode(Drop(data, 3))

\* base64.b64decode of a well-formed string: four characters give three
\* bytes, fewer where the group is padded
RECURSIVE b64decode(_)
b64decode(s) ==
    IF Len(s) < 4 THEN <<>>
    ELSE LET sextet(k) == IF s[k] = B64Pad THEN 0 ELSE s[k]
             v == sextet(1) * 262144 + sextet(2) * 4096 + sextet(3) * 64
                    + sextet(4)
             bytes == <<v \div 65536, (v \div 256) % 256, v % 256>>
         IN  (CASE s[3] = B64Pad -> Take(bytes, 1)
                [] s[3] # B64Pad /\ s[4] = B64Pad -> Take(bytes, 2)
                [] OTHER -> bytes)
                 \o b64decode(Drop(s, 4))

StreamMic_init ==
    [stream |-> None,       \* self.stream
     exited |-> FALSE,      \* context() has been left
     captured |-> <<>>,     \* the frames given to on_audio_in, in order
     callbacks |-> <<>>,    \* put_nowait calls scheduled and not yet run
     buffer |-> <<>>,       \* self.buffer, the asyncio.Queue
     worker |-> [pc |-> "-", harvested |-> <<>>],
     event_id_iter |-> 0]

MicInit == stream_mic = StreamMic_init

mic_others ==
    <<track_conversation, n_uuid, n_server_events, receiving, last,
      server_events, chain_vars, interrupt_vars, buffer_vars,
      transport_vars, config_info, player_vars>>

\* maybe_open_stream, once the audio configuration is determined: the
\* stream is opened and the worker task created; the worker passes
\* `while self.stream is not None' and awaits self.buffer.get()
maybe_open_stream(mic) ==
    IF mic.stream # None THEN mic
    ELSE [mic EXCEPT !.stream = Some("open"), !.worker.pc = "get"]

MaybeOpenStream ==
    /\ stream_mic.stream = None
    /\ ~stream_mic.exited
    /\ stream_mic' = maybe_open_stream(stream_mic)
    /\ UNCHANGED <<c, n_client_events, sent>>
    /\ UNCHANGED mic_others

\* asyncio.Queue.put_nowait at the other end of the queue
put_nowait_in_front(queue, item) == <<item>> \o queue

\* asyncio.Queue.put_nowait
put_nowait(queue, item) == Append(queue, item)

\* on_audio_in, on the device thread: call_soon_threadsafe schedules
\* self.buffer.put_nowait(in_data) on the loop, in the order of the calls
OnAudioIn ==
    /\ stream_mic.stream # None
    /\ Len(stream_mic.captured) < MaxCaptured
    /\ LET in_data == Chunk(Len(stream_mic.captured) * FrameBytes,
                            FrameBytes)
       IN  stream_mic' = [stream_mic EXCEPT
                             !.captured = Append(@, in_data),
                             !.callbacks = Append(@, in_data)]
    /\ UNCHANGED <<c, n_client_events, sent>>
    /\ UNCHANGED mic_others

\* the loop runs the oldest scheduled put_nowait
RunPutNowait ==
    /\ stream_mic.callbacks # <<>>
    /\ stream_mic' = [stream_mic EXCEPT
                         !.callbacks = Tail(@),
                         !.buffer = put_nowait(@,
                                        Head(stream_mic.callbacks))]
    /\ UNCHANGED <<c, n_client_events, sent>>
    /\ UNCHANGED mic_others

RECURSIVE Join(_)
Join(frames) ==
    IF frames = <<>> THEN <<>> ELSE Head(frames) \o Join(Tail(frames))

\* how many items the worker takes in one pass: the one buffer.get()
\* returns, then get_nowait() while _buf_size < PAYLOAD_SIZE_THRESHOLD and
\* the queue is not empty
RECURSIVE n_taken(_, _, _)
n_taken(queue, n, _buf_size) ==
    IF n >= 1 /\ (_buf_size >= PAYLOAD_SIZE_THRESHOLD \/ n = Len(queue))
    THEN n
    ELSE n_taken(queue, n + 1, _buf_size + Len(queue[n + 1]))

\* worker, from the return of `await self.buffer.get()' to the await in
\* send_audio: the items are taken, harvested and put in an event
WorkerHarvest ==
    /\ stream_mic.worker.pc = "get"
    /\ stream_mic.buffer # <<>>
    /\ LET n == n_taken(stream_mic.buffer, 0, 0)
       IN  stream_mic' = [stream_mic EXCEPT
                             !.buffer = Drop(@, n),
                             !.worker = [pc |-> "send",
                                         harvested |->
                                             Join(Take(stream_mic.buffer,
                                                       n))]]
    /\ UNCHANGED <<c, n_client_events, sent>>
    /\ UNCHANGED mic_others

InputAudioBufferAppendEventParam(audio, event_id) ==
    [type |-> "input_audio_buffer.append", audio |-> audio,
     event_id |-> Some(event_id)]

\* send_audio: the event that carries the harvested bytes
send_audio(data, n) ==
    InputAudioBufferAppendEventParam(b64encode(data),
                                     "client-a-" \o ToString(n))

\* worker, the send of the event and the next test of
\* `while self.stream is not None'
WorkerSend ==
    /\ stream_mic.worker.pc = "send"
    /\ send_with_handlers(send_audio(stream_mic.worker.harvested,
                                     stream_mic.event_id_iter))
    /\ stream_mic' = [stream_mic EXCEPT
                         !.event_id_iter = @ + 1,
                         !.worker = [pc |-> IF stream_mic.stream # None
                                            THEN "get" ELSE "returned",
                                     harvested |-> <<>>]]
    /\ UNCHANGED mic_others

\* the end of context(): the stream is closed and b'' put in the queue
ContextExit ==
    /\ ~stream_mic.exited
    /\ stream_mic' = [stream_mic EXCEPT
                         !.stream = None,
                         !.exited = TRUE,
                         !.buffer = put_nowait(@, <<>>)]
    /\ UNCHANGED <<c, n_client_events, sent>>
    /\ UNCHANGED mic_others

MicNext ==
    \/ MaybeOpenStream
    \/ OnAudioIn
    \/ RunPutNowait
    \/ WorkerHarvest
    \/ WorkerSend
    \/ ContextExit

Init ==
    /\ BufferInit /\ ConversationInit /\ ChainInit /\ InterruptInit
    /\ TransportInit
    /\ ResolveInit
    /\ PlayerInit
    /\ MicInit

SpecBuffer == Init /\ [][BufferNext]_vars

SpecConversation == Init /\ [][ConversationNext]_vars

SpecStream == Init /\ [][StreamNext]_vars

SpecChain == Init /\ [][ChainNext]_vars

SpecInterrupt == Init /\ [][InterruptNext]_vars

SpecAllocator == Init /\ [][AllocatorNext]_vars

SpecConfig == Init /\ [][ConfigNext]_vars

SpecTransport == Init /\ [][TransportNext]_vars

SpecWire == Init /\ [][WireNext]_vars

SpecResolve == Init /\ [][ResolveNext]_vars

SpecPlayer == Init /\ [][PlayerNext]_vars

SpecMic == Init /\ [][MicNext]_vars

\* the event loop runs every task it was given: an _interrupt task that
\* can take its next step takes it
SpecInterruptTasksRun ==
    /\ Init
    /\ [][InterruptNext]_vars
    /\ WF_vars(InterruptUntilCancel)
    /\ WF_vars(InterruptTruncate)

SpecPlayerWithoutTracker ==
    /\ Init
    /\ [][PlayerWithoutTrackerNext]_vars
    /\ WF_vars(OnAudioOutWithoutTracker)

(***************************************************************************)
(* What the consumer received.                                             *)
(***************************************************************************)
RECURSIVE ConcatPages(_)
ConcatPages(ps) ==
    IF ps = <<>> THEN <<>> ELSE Head(ps).page \o ConcatPages(Tail(ps))

RECURSIVE ConcatContent(_)
ConcatContent(ps) ==
    IF ps = <<>> THEN <<>>
    ELSE Take(Head(ps).page, Head(ps).n_content_bytes) \o ConcatContent(Tail(ps))

AllPopped == Len(popped) >= CeilDiv(Len(appended), n_bytes_per_page)

\* C1: when every pop respected availability (a full page was buffered, or
\* all bytes had been appended and the short tail was left), the popped
\* pages, concatenated and cut to the appended length, are the appended
\* bytes in order: a prefix of them while pages are outstanding, all of them
\* once the last page was popped.
C1_FifoRespectingAvailability ==
    respecting =>
        LET cut == Take(ConcatPages(popped), Len(appended))
        IN  /\ IsPrefix(cut, appended)
            /\ (all_appended /\ AllPopped) => cut = appended

C1_Witness ==
    /\ respecting /\ all_appended /\ AllPopped
    /\ Len(popped) >= 3
    /\ popped[Len(popped)].n_content_bytes \in 1..(n_bytes_per_page - 1)

\* C2 as stated: with pops at any time, once everything appended has been
\* popped the pages cut to the appended length are the appended bytes.
C2_FifoAnyInterleaving ==
    (Buffer_is_empty(buf) /\ AllPopped) =>
        Take(ConcatPages(popped), Len(appended)) = appended

\* C2 amended: with pops at any time, the content bytes of the returned
\* pages (each page cut to its n_content_bytes) are, in order, the appended
\* bytes that left the buffer: a prefix of the appended bytes, and all of
\* them when the buffer is empty; what follows the content bytes in a page
\* is silence.
C2_FifoContentBytes ==
    /\ IsPrefix(ConcatContent(popped), appended)
    /\ Buffer_is_empty(buf) => ConcatContent(popped) = appended
    /\ \A i \in 1..Len(popped) :
          Drop(popped[i].page, popped[i].n_content_bytes)
              = Drop(silence_page, popped[i].n_content_bytes)

C2_Witness ==
    /\ ~respecting /\ Buffer_is_empty(buf) /\ Len(appended) > n_bytes_per_page
    /\ \E i \in 1..Len(popped) : popped[i].n_content_bytes = 0
    /\ \E i \in 1..Len(popped) :
          popped[i].n_content_bytes \in 1..(n_bytes_per_page - 1)
    /\ Take(ConcatPages(popped), Len(appended)) # appended

\* C3: every page Buffer.pop returned is exactly n_bytes_per_page long,
\* whether it came from the deque, from a padded tail or from an empty buffer.
C3_PagesHavePageLength ==
    \A i \in 1..Len(popped) : Len(popped[i].page) = n_bytes_per_page

C3_Witness ==
    /\ \E i \in 1..Len(popped) : popped[i].n_content_bytes = n_bytes_per_page
    /\ \E i \in 1..Len(popped) :
          popped[i].n_content_bytes \in 1..(n_bytes_per_page - 1)
    /\ \E i \in 1..Len(popped) : popped[i].n_content_bytes = 0

\* C4: in every state of the buffer each element of the deque is exactly
\* n_bytes_per_page long and the tail is absent or strictly shorter.
C4_BufferStateInvariant ==
    /\ \A i \in 1..Len(buf.dq) : Len(buf.dq[i]) = n_bytes_per_page
    /\ buf.tail = None \/ Len(Get(buf.tail)) < n_bytes_per_page

C4_Witness ==
    /\ Len(buf.dq) >= 2
    /\ buf.tail # None
    /\ Len(popped) >= 1

(***************************************************************************)
(* The conversation group and the state engine.                            *)
(***************************************************************************)
Group == track_conversation.conversation_group

MainItemIds ==
    {Group.main_conversation[i].item_id : i \in DOMAIN Group.main_conversation}

OutOfBandItemIds == DOMAIN Group.out_of_band_cells

TrashedItemIds ==
    {Group.trashed_cells[i].item_id : i \in DOMAIN Group.trashed_cells}

PositionsOf(item_id) ==
    {i \in DOMAIN Group.main_conversation :
        Group.main_conversation[i].item_id = item_id}

\* C5: in every state of the conversation group, the main-sequence
\* membership set is exactly the set of item_ids of the cells in the main
\* sequence.
C5_MembershipSetMatchesMain ==
    Group.main_conversation_item_ids = MainItemIds

ConfirmedLocallySynced ==
    /\ last.kind = "server" /\ ~last.raised
    /\ last.event.type = "conversation.item.added"
    /\ last.branch = "locally_synced"

\* C7: when the server's conversation.item.added for an item created locally
\* has been handled, whatever was inserted in between, the item's cell is
\* exactly once in the main sequence, immediately after the
\* previous_item_id the server named (first when it named none), and the
\* stored item equals the server's item.
C7_ConfirmedItemPlacedAsServerSays ==
    ConfirmedLocallySynced =>
        LET item_id == Get(last.event.item.id)
            previous_item_id == last.event.previous_item_id
        IN  /\ Cardinality(PositionsOf(item_id)) = 1
            /\ \A i \in PositionsOf(item_id) :
                  IF is_root(previous_item_id)
                  THEN i = 1
                  ELSE /\ i > 1
                       /\ Group.main_conversation[i - 1].item_id
                              = Get(previous_item_id)
            /\ track_conversation.all_items[item_id] = last.event.item

\* the create went out with another item as previous_item_id, and the
\* server placed the item first
C7_Witness ==
    /\ ConfirmedLocallySynced
    /\ Len(Group.main_conversation) >= 2
    /\ last.event.previous_item_id = None
    /\ \E k \in DOMAIN sent :
          /\ sent[k].item.id = last.event.item.id
          /\ ~is_root(sent[k].previous_item_id)

\* the last cell's item id, read off the main sequence
LastOfMain ==
    IF Group.main_conversation = <<>> THEN root
    ELSE Group.main_conversation[Len(Group.main_conversation)].item_id

\* one step of send on a conversation.item.create: what was handed in
\* (last'.event) against what went out (the event appended to sent)
C8_SendStep ==
    /\ n_client_events' = n_client_events + 1
    /\ last'.event.type = "conversation.item.create"
    => LET event == last'.event
           forwarded == sent'[Len(sent')]
       IN  /\ (event.item.id = None /\ ~event.has_previous_item_id)
                  => ~last'.raised
           /\ ~last'.raised =>
                 /\ sent' = Append(sent, forwarded)
                 /\ IF event.item.id = None
                    THEN /\ forwarded.item.id = Some(ClientSetId(n_uuid'))
                         /\ n_uuid' = n_uuid + 1
                         /\ ClientSetId(n_uuid') \notin HeardOf
                    ELSE forwarded.item.id = event.item.id
                 /\ forwarded.has_previous_item_id
                 /\ IF event.has_previous_item_id
                    THEN forwarded.previous_item_id = event.previous_item_id
                    ELSE forwarded.previous_item_id = Some(LastOfMain)
                 /\ forwarded.item.payload = event.item.payload

\* C8: a conversation.item.create handed to send with no item id and no
\* previous_item_id is forwarded with a newly generated item id and with
\* previous_item_id equal to the id of the last item the main sequence had
\* (root if it had none); an item id or previous_item_id the caller supplied
\* is forwarded as supplied.
C8_CreateForwardedWithDefaults == [][C8_SendStep]_vars

\* a create with neither id went out while the main sequence had two items
C8_Witness ==
    /\ last.kind = "client" /\ ~last.raised
    /\ last.event.item.id = None /\ ~last.event.has_previous_item_id
    /\ Len(Group.main_conversation) >= 3
    /\ sent[Len(sent)].previous_item_id
           = Some(Group.main_conversation[2].item_id)

\* the server has just confirmed an item whose create went out through the
\* outbound chain
C9_Confirmed ==
    /\ ConfirmedLocallySynced
    /\ \E k \in DOMAIN sent : sent[k].item.id = last.event.item.id

C9_TouchList ==
    LET item_id == Get(last.event.item.id)
    IN  Group.main_conversation[CHOOSE i \in PositionsOf(item_id) : TRUE]
            .touched_by_event_ids

\* C9 as stated: after a create sent through the outbound chain is
\* confirmed by the server, the touch list of the item's cell contains, in
\* order, a null id and then the server event id.
C9_TouchListHasNullMarker ==
    C9_Confirmed =>
        \E i, j \in DOMAIN C9_TouchList :
            /\ i < j
            /\ C9_TouchList[i] = None
            /\ C9_TouchList[j] = Some(last.event.event_id)

\* C9 amended: after a create sent through the outbound chain is confirmed
\* by the server, the touch list of the item's cell contains, in order, the
\* event_id the create left the event id allocator with (the caller's own,
\* or client-NNNNN-auto from the allocator's counter) and then the server
\* event id; it contains no null id.
C9_TouchListHasAllocatedEventId ==
    C9_Confirmed =>
        \E k \in DOMAIN sent :
            /\ sent[k].item.id = last.event.item.id
            /\ \/ sent[k].event_id \in {Some(e) : e \in CallerEventIds}
               \/ \E n \in 0..(c - 1) :
                     sent[k].event_id
                         = Some("client-" \o ZeroPadded5(n) \o "-auto")
            /\ \E i, j \in DOMAIN C9_TouchList :
                  /\ i < j
                  /\ C9_TouchList[i] = sent[k].event_id
                  /\ C9_TouchList[j] = Some(last.event.event_id)
            /\ \A i \in DOMAIN C9_TouchList : C9_TouchList[i] # None

\* the second create of the session, sent without an event_id, is confirmed
C9_Witness ==
    /\ C9_Confirmed
    /\ C9_TouchList = <<Some("client-00001-auto"), Some(last.event.event_id)>>

\* response.output_item.added for a response created with no
\* conversation_id has just been handled without an error
C10_OutOfBandItemAdded ==
    /\ last.kind = "server" /\ ~last.raised
    /\ last.event.type = "response.output_item.added"
    /\ track_conversation.responses[last.event.response_id].conversation_id
           = None

\* C10: after response.created for a response with no conversation_id and
\* response.output_item.added for an item of that response, the item's cell
\* is in the out-of-band map with response_id equal to the response's id,
\* and is not in the main sequence.
C10_ItemInOutOfBandMap ==
    C10_OutOfBandItemAdded =>
        LET item_id == Get(last.event.item.id)
        IN  /\ item_id \in OutOfBandItemIds
            /\ Group.out_of_band_cells[item_id].item_id = item_id
            /\ Group.out_of_band_cells[item_id].response_id
                   = Some(last.event.response_id)
            /\ item_id \notin MainItemIds
            /\ item_id \notin Group.main_conversation_item_ids

\* ... while the main sequence holds another item
C10_Witness ==
    /\ C10_OutOfBandItemAdded
    /\ MainItemIds # {}
    /\ Group.out_of_band_cells[Get(last.event.item.id)].touched_by_event_ids
           = <<Some(last.event.event_id)>>

(***************************************************************************)
(* The response stream.                                                    *)
(***************************************************************************)
\* the server events whose handling returned, in arrival order
HandledServerEvents ==
    IF last.kind = "server" /\ last.raised
    THEN SubSeq(server_events, 1, Len(server_events) - 1)
    ELSE server_events

TranscriptDeltasTo(item_id, content_index) ==
    LET addressed(e) ==
            /\ e.type = "response.output_audio_transcript.delta"
            /\ e.item_id = item_id
            /\ e.content_index = content_index
    IN  SelectSeq(HandledServerEvents, addressed)

RECURSIVE ConcatDeltas(_)
ConcatDeltas(es) ==
    IF es = <<>> THEN "" ELSE Head(es).delta \o ConcatDeltas(Tail(es))

EventIdsOf(es) == [i \in DOMAIN es |-> Some(es[i].event_id)]

\* every cell of the group: main sequence, out-of-band map and trash
AllCells ==
    {Group.main_conversation[i] : i \in DOMAIN Group.main_conversation}
        \cup {Group.out_of_band_cells[k] : k \in DOMAIN Group.out_of_band_cells}
        \cup {Group.trashed_cells[i] : i \in DOMAIN Group.trashed_cells}

\* the entries of a touch list that are among the given event ids
Among(touched_by_event_ids, event_ids) ==
    LET among(e) == \E i \in DOMAIN event_ids : event_ids[i] = e
    IN  SelectSeq(touched_by_event_ids, among)

\* C11: when response.audio_transcript.delta events addressed to one
\* (item_id, content_index) have been handled, whatever arrived in between,
\* the content part's transcript is the concatenation of their deltas in
\* arrival order, and the touch list of the item's cell holds their event
\* ids in that order.
C11_TranscriptIsDeltasInOrder ==
    ~last.raised =>
        \A item_id \in DOMAIN track_conversation.all_items :
            \A content_index \in ContentIndices :
                LET deltas == TranscriptDeltasTo(item_id, content_index)
                    item == track_conversation.all_items[item_id]
                IN  deltas # <<>> =>
                        /\ content_index < Len(item.content)
                        /\ item.content[content_index + 1].transcript
                               = Some(ConcatDeltas(deltas))
                        /\ \E cell \in AllCells : cell.item_id = item_id
                        /\ \A cell \in AllCells :
                              cell.item_id = item_id =>
                                  Among(cell.touched_by_event_ids,
                                        EventIdsOf(deltas))
                                      = EventIdsOf(deltas)

\* two parts of one item, a delta to the second between two deltas to the
\* first
C11_Witness ==
    /\ ~last.raised
    /\ Len(HandledServerEvents) >= 3
    /\ \E item_id \in DOMAIN track_conversation.all_items :
          LET n == Len(HandledServerEvents)
          IN  /\ Len(TranscriptDeltasTo(item_id, 0)) = 2
              /\ Len(TranscriptDeltasTo(item_id, 1)) = 1
              /\ HandledServerEvents[n] = TranscriptDeltasTo(item_id, 0)[2]
              /\ HandledServerEvents[n - 1] = TranscriptDeltasTo(item_id, 1)[1]
              /\ track_conversation.all_items[item_id].content[1].transcript
                     = Some("Hello")

\* the events that name an item: every event of the response stream but
\* response.created
NamesAnItem(e) == e.type # "response.created"

TouchedBy(e) ==
    \E cell \in AllCells :
        \E i \in DOMAIN cell.touched_by_event_ids :
            cell.touched_by_event_ids[i] = Some(e.event_id)

\* C12: every event the engine has processed is in the touch list of some
\* cell if and only if the event names an item.
C12_TouchedIffNamesAnItem ==
    \A i \in DOMAIN HandledServerEvents :
        TouchedBy(HandledServerEvents[i]) <=> NamesAnItem(HandledServerEvents[i])

(***************************************************************************)
(* Chains of handlers                                                      *)
(***************************************************************************)
\* the number of the first handler whose body returns None, 0 if none does
FirstNone(returns) ==
    IF \E i \in DOMAIN returns : returns[i] = "None"
    THEN CHOOSE i \in DOMAIN returns :
             /\ returns[i] = "None"
             /\ \A j \in 1 .. i - 1 : returns[j] # "None"
    ELSE 0

ServerRun == chain_run.direction = "server"
ClientRun == chain_run.direction = "client"

\* C13: when a handler of the server chain returns None, no later handler of
\* the chain is called for that event, and keep_receiving goes on to receive
\* the next event.
C13_NullEndsChainForEvent ==
    /\ (ServerRun /\ FirstNone(chain_run.returns) # 0)
           => chain_run.n_called <= FirstNone(chain_run.returns)
    /\ (ServerRun /\ chain_run.outcome = "break")
           => /\ chain_run.n_called = FirstNone(chain_run.returns)
              /\ receiving

C13_Witness ==
    /\ ServerRun
    /\ chain_run.outcome = "break"
    /\ chain_run.n_called < Len(Get(server_event_handlers))
    /\ chain_run.given = ServerEventId(2)
    /\ receiving

\* C14: when a handler of the client chain returns None, the send call
\* writes nothing to the connection.
C14_SendStep ==
    (/\ n_client_events' # n_client_events
     /\ chain_run'.direction = "client"
     /\ chain_run'.outcome = "break")
        => sent' = sent

C14_NullSuppressesSend == [][C14_SendStep]_vars

\* the chain the last event went down, and the handlers called for it
RunHandlers ==
    IF ServerRun THEN Get(server_event_handlers)
    ELSE IF ClientRun THEN Get(client_event_handlers)
    ELSE <<>>

CalledHandlers == SubSeq(RunHandlers, 1, chain_run.n_called)

IsRosterManaged(handler) == handler.handler_name # None

RECURSIVE ManagedNames(_)
ManagedNames(handlers) ==
    IF handlers = <<>> THEN <<>>
    ELSE IF IsRosterManaged(Head(handlers))
    THEN <<Get(Head(handlers).handler_name)>> \o ManagedNames(Tail(handlers))
    ELSE ManagedNames(Tail(handlers))

RosterOf(metadata) ==
    IF metadata.HANDLER_ROSTER = None THEN <<>>
    ELSE Get(metadata.HANDLER_ROSTER)

\* handler number k inserts a name that an earlier handler of the chain
\* inserted, and its manager does not allow that
SecondInsertionNotAllowed(handlers, k) ==
    /\ IsRosterManaged(handlers[k])
    /\ ~handlers[k].allow_same_handler_repeated
    /\ \E j \in 1 .. k - 1 :
           /\ IsRosterManaged(handlers[j])
           /\ handlers[j].handler_name = handlers[k].handler_name

\* C15: every event starts down its chain with empty metadata; when the
\* chain has run, the roster lists the names of the roster-managed handlers
\* called for the event, in the order of the calls and nothing else, each
\* name once unless the handler inserting it again allows repetition; a
\* second insertion that is not allowed raises before the handler's body.
C15_RosterListsManagedHandlersInOrder ==
    /\ chain_run.outcome \in { "exhausted", "break" }
           => /\ RosterOf(chain_run.metadata) = ManagedNames(CalledHandlers)
              /\ chain_run.n_bodies = chain_run.n_called
              /\ \A k \in 1 .. chain_run.n_called :
                     ~SecondInsertionNotAllowed(RunHandlers, k)
    /\ \A k \in 1 .. chain_run.n_called :
           SecondInsertionNotAllowed(RunHandlers, k)
               => /\ chain_run.outcome = "raised"
                  /\ chain_run.n_called = k
                  /\ chain_run.n_bodies = k - 1

C15_Witness ==
    /\ chain_run.outcome = "exhausted"
    /\ chain_run.given = ServerEventId(2)
    /\ Len(RosterOf(chain_run.metadata)) = 2
    /\ Len(RunHandlers) = 3
    /\ RosterOf(chain_run.metadata)[1] = RosterOf(chain_run.metadata)[2]

IsInterrupt(handler) == handler.handler_name = Some("Interrupt")
IsAudioPlayer(handler) == handler.handler_name = Some("AudioPlayer")

AudioPlayerRanBefore(k) == \E j \in 1 .. k - 1 : IsAudioPlayer(RunHandlers[j])

\* the pass ended in the wrapper of handler k, or in its body
RaisedInWrapperOf(k) ==
    /\ chain_run.outcome = "raised"
    /\ chain_run.n_called = k
    /\ chain_run.n_bodies = k - 1

RaisedInBodyOf(k) ==
    /\ chain_run.outcome = "raised"
    /\ chain_run.n_called = k
    /\ chain_run.n_bodies = k

\* C16: in a server chain, an Interrupt handler whose body is entered for an
\* event passes its roster assertion when no AudioPlayer handler ran before
\* it for that event, and fails it, without handling the event, when one
\* did.
C16_InterruptAssertsItRunsFirst ==
    ServerRun =>
        \A k \in 1 .. chain_run.n_called :
            (IsInterrupt(RunHandlers[k]) /\ ~RaisedInWrapperOf(k))
                => (RaisedInBodyOf(k) <=> AudioPlayerRanBefore(k))

C16_Witness ==
    /\ ServerRun
    /\ chain_run.n_called = 2
    /\ IsAudioPlayer(RunHandlers[1])
    /\ IsInterrupt(RunHandlers[2])
    /\ RaisedInBodyOf(2)
    /\ ~receiving

(***************************************************************************)
(* The interruptable audio player                                          *)
(***************************************************************************)
CountIn(s, Matches(_)) == Cardinality({ i \in DOMAIN s : Matches(s[i]) })

IsCancel(e) == e.type = "response.cancel"
IsTruncate(e) == e.type = "conversation.item.truncate"

TruncatesFor(item_id) ==
    LET IsTruncateOfItem(e) == IsTruncate(e) /\ e.item_id = item_id
    IN  CountIn(sent, IsTruncateOfItem)

TasksFor(item_id) ==
    LET IsTaskOfItem(task) == task.current_item_id = item_id
    IN  CountIn(asyncio_loop.tasks, IsTaskOfItem)

CancelSentTasks ==
    LET HasSentCancel(task) == task.pc = "cancel_sent"
    IN  CountIn(asyncio_loop.tasks, HasSentCancel)

\* C17: whatever speech-started, speech-stopped and audio delta events
\* arrive, the interrupt procedure is started at most once for an item id,
\* and at most one response.cancel / conversation.item.truncate pair is
\* written for it.
C17_InterruptedAtMostOncePerItem ==
    /\ \A item_id \in ItemIds :
           /\ TasksFor(item_id) + TruncatesFor(item_id) <= 1
           /\ TasksFor(item_id) + TruncatesFor(item_id) > 0
                  => item_id \in interrupt.already_interrupted
    /\ CountIn(sent, IsCancel)
           = CountIn(sent, IsTruncate) + CancelSentTasks
    /\ CountIn(sent, IsCancel) <= Cardinality(interrupt.already_interrupted)

C17_Witness ==
    /\ iap_run.event.type = "response.output_audio.delta"
    /\ iap_run.raised_in = "-"
    /\ iap_run.metadata.is_during_user_speech
    /\ TruncatesFor(iap_run.event.item_id) = 1
    /\ TasksFor(iap_run.event.item_id) = 0

\* audio_end_ms is the integer nearest to the playhead, the even one when
\* the playhead is half way between two integers
IsRounded(audio_end_ms, ticks) ==
    LET twice_off == IF audio_end_ms * TicksPerMs >= ticks
                     THEN 2 * (audio_end_ms * TicksPerMs - ticks)
                     ELSE 2 * (ticks - audio_end_ms * TicksPerMs)
    IN  /\ twice_off <= TicksPerMs
        /\ twice_off = TicksPerMs => audio_end_ms % 2 = 0

\* the step handles a speech-started event while the tracker reports a
\* content as playing
SpeechStartedWhilePlaying ==
    /\ n_server_events' = n_server_events + 1
    /\ iap_run'.event.type = "input_audio_buffer.speech_started"
    /\ iap_run'.raised_in = "-"
    /\ playback_tracker.current_item_id # None

\* the step writes an event of the given kind to the connection
Writes(IsOfKind(_)) ==
    /\ Len(sent') = Len(sent) + 1
    /\ SubSeq(sent', 1, Len(sent)) = sent
    /\ IsOfKind(sent'[Len(sent')])

\* the truncate a task is going to send
TruncateOf(task, e) ==
    /\ e.item_id = task.current_item_id
    /\ e.content_index = task.current_item_content_index
    /\ IsRounded(e.audio_end_ms, task.elapsed_ms)

\* the step runs task k from its start and the task ends in an exception,
\* before its first send
EndsBeforeCancel(k) ==
    /\ asyncio_loop.tasks[k].pc = "created"
    /\ asyncio_loop'.tasks = RemoveAt(asyncio_loop.tasks, k)

C18_Step ==
    /\ SpeechStartedWhilePlaying
           => LET item_id == Get(playback_tracker.current_item_id)
              IN  IF item_id \in interrupt.already_interrupted
                  THEN asyncio_loop'.tasks = asyncio_loop.tasks
                  ELSE asyncio_loop'.tasks = Append(asyncio_loop.tasks,
                           [current_item_id |-> item_id,
                            current_item_content_index |->
                                Get(playback_tracker.current_item_content_index),
                            elapsed_ms |-> OrZero(playback_tracker.elapsed_ms),
                            pc |-> "created"])
    /\ Writes(IsCancel)
           => /\ audio_player'.speeches = <<>>
              /\ playback_tracker'.current_item_id = None
              /\ \E k \in DOMAIN asyncio_loop.tasks :
                     /\ asyncio_loop.tasks[k].pc = "created"
                     /\ asyncio_loop'.tasks = [asyncio_loop.tasks EXCEPT
                                                  ![k].pc = "cancel_sent"]
    /\ Writes(IsTruncate)
           => \E k \in DOMAIN asyncio_loop.tasks :
                  /\ asyncio_loop.tasks[k].pc = "cancel_sent"
                  /\ TruncateOf(asyncio_loop.tasks[k], sent'[Len(sent')])
                  /\ Len(asyncio_loop'.tasks) = Len(asyncio_loop.tasks) - 1
    /\ Len(sent') > Len(sent) => Writes(IsCancel) \/ Writes(IsTruncate)
    /\ \A k \in DOMAIN asyncio_loop.tasks :
           EndsBeforeCancel(k) => asyncio_loop.tasks[k].elapsed_ms = 0

\* C18: a speech-started event handled while a content is playing starts
\* the interrupt of that content with the playhead the tracker reports
\* (unless the item was interrupted before); the interrupt clears the
\* speech deque, then writes response.cancel, and only after it the
\* conversation.item.truncate with the item id and content index of the
\* content and audio_end_ms = round(elapsed_ms); an interrupt whose
\* playhead is past 0 ms never ends before it has written the cancel.
C18_CancelThenTruncateOfPlayingContent == [][C18_Step]_vars

C18_Witness ==
    /\ Len(sent) = 2
    /\ IsCancel(sent[1])
    /\ IsTruncate(sent[2])
    /\ sent[2].audio_end_ms = 2
    /\ audio_player.speeches = <<>>
    /\ iap_run.event.type = "input_audio_buffer.speech_started"

\* the step handles an audio delta that got as far as the given handler
HandlesDelta ==
    /\ n_server_events' = n_server_events + 1
    /\ iap_run'.event.type = "response.output_audio.delta"

DeltaReachesInterrupt ==
    HandlesDelta /\ iap_run'.raised_in # "TrackConversation"

DeltaReachesAudioPlayer ==
    DeltaReachesInterrupt /\ iap_run'.raised_in # "Interrupt"

\* C19: an audio delta that reaches the Audio Player for a speech that was
\* put in the deque when its content part was announced and is no longer
\* there, its item having been interrupted, is dropped in
\* silence: nothing is buffered, nothing is raised, the receive loop goes
\* on.
PartAnnounced(item_id, content_index) ==
    /\ item_id \in DOMAIN track_conversation.all_items
    /\ Len(track_conversation.all_items[item_id].content) > content_index

C19_Step ==
    (/\ DeltaReachesAudioPlayer
     /\ PartAnnounced(iap_run'.event.item_id, iap_run'.event.content_index)
     /\ iap_run'.event.item_id \in interrupt.already_interrupted
     /\ get_speech(audio_player.speeches, iap_run'.event.item_id,
                   iap_run'.event.content_index).raised)
        => /\ iap_run'.raised_in = "-"
           /\ receiving'
           /\ audio_player' = audio_player

C19_LateDeltaSilentlyDropped == [][C19_Step]_vars

\* C20: an audio delta that arrives while is_user_talking is true gets the
\* during-user-speech flag in its metadata, is passed on down the chain,
\* and no speech buffer of the Audio Player receives its bytes.
C20_Step ==
    (DeltaReachesInterrupt /\ interrupt.is_user_talking)
        => /\ iap_run'.metadata.is_during_user_speech
           /\ iap_run'.raised_in # "Interrupt"
           /\ audio_player'.speeches = audio_player.speeches

C20_DeltaDuringUserSpeechFlaggedNotBuffered == [][C20_Step]_vars

\* the serial of an auto-assigned id, read back from the id
SerialOf(event_id) == CHOOSE n \in 0..(MaxGiven + 1) : AutoId(n) = event_id

IsAutoId(event_id) == \E n \in 0..(MaxGiven + 1) : AutoId(n) = event_id

AutoAssigned == { i \in DOMAIN sent : IsAutoId(Get(sent[i].event_id)) }

PendingSessionUpdates == Len(SessionUpdatesSent) - n_server_events

\* C22: while a session.update that was sent is not acknowledged yet, the
\* session snapshot of the Configuration Tracker is null; once the last
\* pending update is acknowledged, the snapshot is the acknowledged
\* session.
C22_SnapshotNullWhilePending ==
    /\ PendingSessionUpdates > 0 => track_config.session_config = None
    /\ (/\ PendingSessionUpdates = 0
        /\ last.kind = "server"
        /\ last.event.type = "session.updated")
           => track_config.session_config = Some(last.event.session)

\* the step reads a frame that is not a well-formed event
ReadsMalformedFrame ==
    /\ listener.alive
    /\ websocket.frames # <<>>
    /\ Head(websocket.frames).kind # "event"
    /\ websocket'.frames = Tail(websocket.frames)

IsFailureReport(what) == what.type = "InterfaceException"

\* C23: a malformed frame or a frame that fails to decode does not end the
\* receiving loop: the failure is reported to the handlers and the loop is
\* alive for the frames that follow; the loop ends only once the transport
\* has closed.
C23_Step ==
    /\ ReadsMalformedFrame =>
           /\ listener'.alive
           /\ Len(listener'.handled) = Len(listener.handled) + 1
           /\ IsFailureReport(listener'.handled[Len(listener'.handled)])
    /\ (listener.alive /\ ~listener'.alive) => websocket.closed # "no"

C23_MalformedFrameKeepsLoopAlive == [][C23_Step]_vars

\* C24: a call of send that meets a transport closed normally returns to
\* its caller as if it had succeeded: nothing is raised.
C24_SendAfterNormalCloseIsSilent ==
    (last.kind = "client" /\ websocket.closed = "ok") => ~last.raised

\* the step hands the State Engine a conversation.item.added whose
\* previous_item_id was the empty string on the wire, for an item the engine
\* has not heard of
ReadsItemAddedAfterEmptyString ==
    /\ listener.alive
    /\ websocket.frames # <<>>
    /\ websocket'.frames = Tail(websocket.frames)
    /\ Head(websocket.frames).event.previous_item_id = Some("")
    /\ Get(Head(websocket.frames).event.item.id)
          \notin DOMAIN track_conversation.all_items

\* C25: a conversation.item.added whose previous_item_id is the empty
\* string on the wire is treated as root: the item's cell is put at the head
\* of the main sequence.
C25_Step ==
    ReadsItemAddedAfterEmptyString =>
        LET main == track_conversation'.conversation_group.main_conversation
        IN  /\ main # <<>>
            /\ main[1].item_id
                  = Get(Head(websocket.frames).event.item.id)
            /\ ~last'.raised

C25_EmptyStringIsRoot == [][C25_Step]_vars

\* resolve was given a latency window and no sample count, and returned
WindowOnlyResolved ==
    /\ config_info.specification.n_samples_per_page = None
    /\ config_info.specification.page_latency_ms.kind = "tuple"
    /\ config_info.info.raised = "-"

\* C26: resolving a configuration that gives only a latency window (a, b)
\* returns a configuration with a <= ms_per_page <= b.
C26_WindowOnlyResolvesInsideWindow ==
    WindowOnlyResolved =>
        ms_per_page_within(config_info.info.n_samples_per_page,
                           config_info.info.sample_rate,
                           config_info.specification.page_latency_ms.min,
                           config_info.specification.page_latency_ms.max)

(***************************************************************************)
(* C27.  Every read or write of the speech deque and of a speech's Page    *)
(* Buffer happens while the Audio Player's lock is held: while the device  *)
(* thread is inside the with block of on_audio_out, no step of the loop's  *)
(* thread changes the deque or a buffer in it.                             *)
(***************************************************************************)
DequeAndBuffers(ap) ==
    [i \in DOMAIN ap.speeches |->
        [part |-> PartOf(ap.speeches[i]), buffer |-> ap.speeches[i].buffer]]

C27_Step ==
    (lock = "device" /\ device_thread' = device_thread)
        => DequeAndBuffers(audio_player') = DequeAndBuffers(audio_player)

C27_DequeOnlyTouchedUnderLock == [][C27_Step]_vars

(***************************************************************************)
(* C28.  A speech that a tracker update drains from the deque is           *)
(* accomplished (no more audio to come, buffer empty), and every           *)
(* on-speech-end handler registered at that moment is fired for it exactly *)
(* once; no handler is fired for anything else, and none for a speech that *)
(* an interrupt removed.                                                   *)
(***************************************************************************)
FiredFor(handler, part) ==
    { k \in DOMAIN speech_end.fired :
        speech_end.fired[k] = [handler |-> handler, part |-> part] }

SentAudio == Join([i \in DOMAIN sent |-> b64decode(sent[i].audio)])

InPipeline ==
    stream_mic.worker.harvested \o Join(stream_mic.buffer)
        \o Join(stream_mic.callbacks)

C29_SentAudioIsCapturedFramesInOrder ==
    /\ SentAudio \o InPipeline = Join(stream_mic.captured)
    /\ Len(sent) = stream_mic.event_id_iter
    /\ \A i \in DOMAIN sent :
           /\ sent[i].type = "input_audio_buffer.append"
           /\ sent[i].event_id = Some("client-a-" \o ToString(i - 1))
    /\ (/\ stream_mic.stream # None
        /\ stream_mic.worker.pc = "get"
        /\ stream_mic.buffer = <<>>
        /\ stream_mic.callbacks = <<>>)
           => SentAudio = Join(stream_mic.captured)

\* every frame captured and sent, in two events, the first one cut at the
\* threshold
C29_Witness ==
    /\ Len(stream_mic.captured) = MaxCaptured
    /\ stream_mic.stream # None
    /\ stream_mic.worker.pc = "get"
    /\ stream_mic.buffer = <<>>
    /\ stream_mic.callbacks = <<>>
    /\ Len(sent) = 2
    /\ Len(b64decode(sent[1].audio)) >= PAYLOAD_SIZE_THRESHOLD

(***************************************************************************)
(* C30.  A response.output_item.added of a response bound to the main      *)
(* conversation leaves the item recorded as awaiting insertion, under the  *)
(* response's id, and not yet in the main sequence.  The                   *)
(* conversation.item.added that finds the item recorded so puts its cell   *)
(* into the main sequence once, immediately after the previous_item_id the *)
(* server named, with the response id that was recorded, and the item is   *)
(* recorded as awaiting no longer.                                         *)
(***************************************************************************)
Awaiting == track_conversation.response_added_awaiting_conversation_insertion

PositionsIn(cg, item_id) ==
    {i \in DOMAIN cg.main_conversation :
        cg.main_conversation[i].item_id = item_id}

HandledNow(type) ==
    /\ n_server_events' = n_server_events + 1
    /\ last'.event.type = type
    /\ ~last'.raised

C30_Step ==
    /\ (/\ HandledNow("response.output_item.added")
        /\ track_conversation.responses[last'.event.response_id]
               .conversation_id # None)
       => LET item_id == Get(last'.event.item.id)
          IN  /\ item_id \in DOMAIN Awaiting'
              /\ Awaiting'[item_id] = last'.event.response_id
              /\ track_conversation'.all_items[item_id] = last'.event.item
              /\ PositionsIn(Group', item_id) = {}
    /\ (/\ HandledNow("conversation.item.added")
        /\ last'.branch = "added_by_response")
       => LET item_id == Get(last'.event.item.id)
              previous_item_id == last'.event.previous_item_id
          IN  /\ Cardinality(PositionsIn(Group', item_id)) = 1
              /\ \A i \in PositionsIn(Group', item_id) :
                    /\ Group'.main_conversation[i].response_id
                           = Some(Awaiting[item_id])
                    /\ IF is_root(previous_item_id)
                       THEN i = 1
                       ELSE /\ i > 1
                            /\ Group'.main_conversation[i - 1].item_id
                                   = Get(previous_item_id)
              /\ item_id \notin DOMAIN Awaiting'

C30_ResponseItemAwaitsThenInserted == [][C30_Step]_vars

\* the item of a response was inserted behind another item of the main
\* sequence
C30_Witness ==
    /\ last.kind = "server" /\ ~last.raised
    /\ last.event.type = "conversation.item.added"
    /\ last.branch = "added_by_response"
    /\ ~is_root(last.event.previous_item_id)
    /\ Len(Group.main_conversation) >= 2
    /\ Awaiting = << >>

(***************************************************************************)
(* C31.  In every state of the State Engine no item is in both awaiting    *)
(* sets: the items created locally that await the server's confirmation    *)
(* and the items announced by a response that await their place in the     *)
(* main sequence.                                                          *)
(***************************************************************************)
LocallySynced ==
    track_conversation.locally_synced_awaiting_server_confirmation

C31_AwaitingSetsDisjoint == LocallySynced \cap DOMAIN Awaiting = {}

(***************************************************************************)
(* C32.  Once the Configuration Tracker holds an input format it holds one *)
(* after every later event, and the same for the output format: no         *)
(* session.update and no session.updated sets the field back to None.      *)
(***************************************************************************)
C32_Step ==
    /\ track_config.audio_format_input # None
           => track_config'.audio_format_input # None
    /\ track_config.audio_format_output # None
           => track_config'.audio_format_output # None

C32_KnownFormatStaysKnown == [][C32_Step]_vars

(***************************************************************************)
(* C33.  In every state of the State Engine the item ids of all_items are  *)
(* the item ids of the main sequence and of the out-of-band map, no more   *)
(* and no less: no trashed item, no item that is in neither container.     *)
(* Stated for the states that follow a call that did not raise.            *)
(***************************************************************************)
C33_AllItemsAreMainAndOutOfBand ==
    ~last.raised =>
        DOMAIN track_conversation.all_items
            = MainItemIds \cup OutOfBandItemIds

\* C34: once the interrupt procedure has run for an item (its
\* conversation.item.truncate was passed to the send pipeline), the item's
\* cell has truncate_info set, with the content index and the rounded
\* playhead of the interrupt; a later conversation.item.truncated of the
\* server therefore finds it set and leaves it as it is.
C34_InterruptRecordsTruncateInfo ==
    \A k \in DOMAIN TruncatesSent :
        LET e == TruncatesSent[k]
            g == get_cell_from_id(Group, e.item_id)
        IN  ~g.raised =>
                /\ g.cell.truncate_info # None
                /\ SubSeq(Get(g.cell.truncate_info), 1, 2) =
                       <<e.content_index, e.audio_end_ms>>

\* the cells with the given item id, in whichever container they are
CellsOf(cg, item_id) ==
    {cg.main_conversation[i] : i \in PositionsIn(cg, item_id)}
        \cup {cg.out_of_band_cells[k] :
                 k \in {k \in DOMAIN cg.out_of_band_cells :
                           cg.out_of_band_cells[k].item_id = item_id}}
        \cup {cg.trashed_cells[i] :
                 i \in {i \in DOMAIN cg.trashed_cells :
                           cg.trashed_cells[i].item_id = item_id}}

TouchedIn(cg, item_id, event_id) ==
    \E cell \in CellsOf(cg, item_id) :
        \E k \in DOMAIN cell.touched_by_event_ids :
            cell.touched_by_event_ids[k] = Some(event_id)

\* C35: a conversation.item.deleted of the server leaves the cell of the
\* item it names, when the item was in the main sequence or in the
\* out-of-band map, as the last cell of the trash, with the event's id as
\* the last entry of its touch list, and in no other container; the cells
\* that were in the trash stay there, in their order.
C35_Step ==
    (/\ n_server_events' = n_server_events + 1
     /\ last'.event.type = "conversation.item.deleted")
    => LET event_id == ServerEventId(n_server_events + 1)
           trashed == Group'.trashed_cells
       IN  /\ Len(trashed) >= Len(Group.trashed_cells)
           /\ SubSeq(trashed, 1, Len(Group.trashed_cells))
                  = Group.trashed_cells
           /\ \A item_id \in MainItemIds \cup OutOfBandItemIds :
                  TouchedIn(Group', item_id, event_id) =>
                      /\ trashed # <<>>
                      /\ trashed[Len(trashed)].item_id = item_id
                      /\ LET touched ==
                                 trashed[Len(trashed)].touched_by_event_ids
                         IN  /\ touched # <<>>
                             /\ touched[Len(touched)] = Some(event_id)
                      /\ item_id \notin MainItemIds'
                      /\ item_id \notin OutOfBandItemIds'

C35_DeletedItemGoesToTrash == [][C35_Step]_vars

\* the head speech is accomplished and the speech behind it has audio in
\* its buffer
BlockedBehindAccomplishedHead ==
    /\ Len(audio_player.speeches) >= 2
    /\ is_mission_accomplished(audio_player.speeches[1])
    /\ ~Buffer_is_empty(audio_player.speeches[2].buffer)

\* C36: with no playback tracker, whenever the head speech of the deque is
\* accomplished and the speech behind it has audio buffered, the device
\* callback eventually gets past the head: the speech behind it is popped
\* from, or becomes the head (or the deque is cleared).
C36_AccomplishedHeadDoesNotBlock ==
    BlockedBehindAccomplishedHead ~> ~BlockedBehindAccomplishedHead

\* C37: a tracker update that the loop runs (on_play_ms is delivered to the
\* playback tracker) is never for a speech that an interrupt has cleared
\* from the deque.
C37_Step ==
    (/\ asyncio_loop.updates # <<>>
     /\ asyncio_loop'.updates = Tail(asyncio_loop.updates))
    => LET u == Head(asyncio_loop.updates)
       IN  <<u.item_id, u.content_index>> \notin speech_end.cleared

C37_NoPlayMsAfterInterrupt == [][C37_Step]_vars

\* C38: a conversation.item.create or a conversation.item.added whose
\* handling raises (the calls of insert_after and move are theirs) leaves
\* the main sequence and its membership set as they were.
C38_Step ==
    (/\ \/ n_server_events' = n_server_events + 1
        \/ n_client_events' = n_client_events + 1
     /\ last'.raised
     /\ last'.event.type \in {"conversation.item.create",
                              "conversation.item.added"})
    => /\ Group'.main_conversation = Group.main_conversation
       /\ Group'.main_conversation_item_ids
              = Group.main_conversation_item_ids

C38_FailedInsertOrMoveChangesNothing == [][C38_Step]_vars

\* C39: no input_audio_buffer.append that the worker sends carries an
\* empty audio payload, the one it sends after the empty marker of
\* context() included.
C39_NoEmptyAudioSent ==
    \A i \in DOMAIN sent :
        sent[i].type = "input_audio_buffer.append" => sent[i].audio # <<>>

CancelAndTruncateSent(item_id) ==
    /\ \E i \in DOMAIN sent : sent[i].type = "response.cancel"
    /\ \E i \in DOMAIN sent :
           /\ sent[i].type = "conversation.item.truncate"
           /\ sent[i].item_id = item_id

\* C40: once an item is in already_interrupted (its interrupt was started),
\* a response.cancel and a conversation.item.truncate for the item are
\* eventually passed to the send pipeline.
C40_StartedInterruptSendsCancelAndTruncate ==
    \A item_id \in ItemIds :
        (item_id \in interrupt.already_interrupted)
            ~> CancelAndTruncateSent(item_id)

====
